---- MODULE Spec2Model ----
(***************************************************************************)
(* goipp: encoder and decoder of IPP (RFC 8010) messages.                  *)
(*                                                                         *)
(* Bytes are numbers 0..255, byte strings and names are sequences of       *)
(* bytes.  A Go error is a string, "" being the nil error.  A Go int that  *)
(* may exceed 31 bits (uint32, and int on a 64-bit build) is kept as two   *)
(* 16-bit limbs [hi, lo] standing for hi * 65536 + lo.                     *)
(***************************************************************************)
EXTENDS Integers, Sequences, FiniteSets, TLC

(***************************************************************************)
(* Tags (tag.go)                                                           *)
(***************************************************************************)
TagZero == 0
TagOperationGroup == 1
TagJobGroup == 2
TagEnd == 3
TagPrinterGroup == 4
TagUnsupportedGroup == 5
TagSubscriptionGroup == 6
TagEventNotificationGroup == 7
TagResourceGroup == 8
TagDocumentGroup == 9
TagSystemGroup == 10
TagFuture11Group == 11
TagFuture12Group == 12
TagFuture13Group == 13
TagFuture14Group == 14
TagFuture15Group == 15
TagUnsupportedValue == 16
TagDefault == 17
TagUnknown == 18
TagNoValue == 19
TagNotSettable == 21
TagDeleteAttr == 22
TagAdminDefine == 23
TagInteger == 33
TagBoolean == 34
TagEnum == 35
TagString == 48
TagDate == 49
TagResolution == 50
TagRange == 51
TagBeginCollection == 52
TagTextLang == 53
TagNameLang == 54
TagEndCollection == 55
TagText == 65
TagName == 66
TagReservedString == 67
TagKeyword == 68
TagUri == 69
TagUriScheme == 70
TagCharset == 71
TagLanguage == 72
TagMimeType == 73
TagMemberName == 74
TagExtension == 127

\* Tag.IsDelimiter
IsDelimiter(tag) == tag < 16

\* The tags the decoder's switch maps to a group field of the Message,
\* in the order of Message.attrGroups
GroupTags ==
    << TagOperationGroup, TagJobGroup, TagPrinterGroup, TagUnsupportedGroup,
       TagSubscriptionGroup, TagEventNotificationGroup, TagResourceGroup,
       TagDocumentGroup, TagSystemGroup, TagFuture11Group, TagFuture12Group,
       TagFuture13Group, TagFuture14Group, TagFuture15Group >>

GroupTagSet == { GroupTags[i] : i \in 1..Len(GroupTags) }

(***************************************************************************)
(* Types (type.go)                                                         *)
(***************************************************************************)
TypeInvalid == "Invalid"
TypeVoid == "Void"
TypeInteger == "Integer"
TypeBoolean == "Boolean"
TypeString == "String"
TypeDateTime == "DateTime"
TypeResolution == "Resolution"
TypeRange == "Range"
TypeTextWithLang == "TextWithLang"
TypeBinary == "Binary"
TypeCollection == "Collection"

\* Tag.Type
Type(tag) ==
    IF IsDelimiter(tag) THEN TypeInvalid
    ELSE IF tag \in {TagInteger, TagEnum} THEN TypeInteger
    ELSE IF tag = TagBoolean THEN TypeBoolean
    ELSE IF tag \in {TagUnsupportedValue, TagDefault, TagUnknown,
                     TagNotSettable, TagNoValue, TagDeleteAttr,
                     TagAdminDefine} THEN TypeVoid
    ELSE IF tag \in {TagText, TagName, TagReservedString, TagKeyword,
                     TagUri, TagUriScheme, TagCharset, TagLanguage,
                     TagMimeType, TagMemberName} THEN TypeString
    ELSE IF tag = TagDate THEN TypeDateTime
    ELSE IF tag = TagResolution THEN TypeResolution
    ELSE IF tag = TagRange THEN TypeRange
    ELSE IF tag \in {TagTextLang, TagNameLang} THEN TypeTextWithLang
    ELSE IF tag = TagBeginCollection THEN TypeCollection
    ELSE IF tag = TagEndCollection THEN TypeVoid
    ELSE TypeBinary

(***************************************************************************)
(* Bytes and fixed-width integers                                          *)
(***************************************************************************)
Byte == 0..255
MaxUint16 == 65535

\* binary.BigEndian.Uint16
Uint16(b) == b[1] * 256 + b[2]

\* binary.BigEndian.Uint32, as limbs
Uint32(b) == [hi |-> b[1] * 256 + b[2], lo |-> b[3] * 256 + b[4]]

\* []byte{byte(v >> 8), byte(v)} of a uint16
PutU16(v) == << (v \div 256) % 256, v % 256 >>

\* []byte{byte(v >> 24), byte(v >> 16), byte(v >> 8), byte(v)} of limbs
PutU32(w) == PutU16(w.hi % 65536) \o PutU16(w.lo)

\* int32(uint32): the signed 32-bit number of four bytes, a plain integer
Int32(b) ==
    (IF b[1] >= 128 THEN b[1] - 256 ELSE b[1]) * 16777216
        + b[2] * 65536 + b[3] * 256 + b[4]

\* the four big-endian bytes of a signed 32-bit number
PutI32(v) ==
    << (v \div 16777216) % 256, (v \div 65536) % 256,
       (v \div 256) % 256, v % 256 >>

\* int(uint32) of a Go build whose int has `bits` bits: on 64 bits the
\* number stays unsigned, on 32 bits it wraps to a signed number
IntOfUint32(w, bits) ==
    IF bits = 32 /\ w.hi >= 32768 THEN [hi |-> w.hi - 65536, lo |-> w.lo]
    ELSE w

\* the limbs of a small integer
Limbs(n) == [hi |-> n \div 65536, lo |-> n % 65536]

(***************************************************************************)
(* Values (value.go).  A Value is a record whose field `type` is the       *)
(* result of its Type() method.                                            *)
(***************************************************************************)
Void == [type |-> TypeVoid]
Integer(n) == [v |-> n, type |-> TypeInteger]
Boolean(b) == [v |-> b, type |-> TypeBoolean]
String(s) == [v |-> s, type |-> TypeString]
Binary(s) == [v |-> s, type |-> TypeBinary]
Range(l, u) == [type |-> TypeRange, Lower |-> l, Upper |-> u]
Resolution(x, y, u) == [type |-> TypeResolution, Xres |-> x, Yres |-> y, Units |-> u]
TextWithLang(l, t) == [type |-> TypeTextWithLang, Lang |-> l, Text |-> t]
Collection(attrs) == [type |-> TypeCollection, attrs |-> attrs]
\* Time: the year, month, day, hour, minute, second and nanosecond of a
\* time.Time, and the offset of its zone in seconds
Time(f, zone) == [type |-> TypeDateTime, zone |-> zone, fields |-> f]

NoError == ""
Ok(x) == [err |-> NoError, val |-> x]
Fail(e) == [err |-> e, val |-> Void]

\* Void.encode, Integer.encode, ..., Collection.encode: the payload bytes
\* of a value, and the error
encode(v) ==
    CASE v.type = TypeVoid -> Ok(<<>>)
      [] v.type = TypeInteger -> Ok(PutI32(v.v))
      [] v.type = TypeBoolean -> Ok(IF v.v THEN <<1>> ELSE <<0>>)
      [] v.type = TypeString -> Ok(v.v)
      [] v.type = TypeBinary -> Ok(v.v)
      [] v.type = TypeRange -> Ok(PutU32(v.Lower) \o PutU32(v.Upper))
      [] v.type = TypeResolution ->
            Ok(PutU32(v.Xres) \o PutU32(v.Yres) \o <<v.Units % 256>>)
      [] v.type = TypeTextWithLang ->
            IF Len(v.Lang) > MaxUint16 THEN Fail("Lang exceeds 65535 bytes")
            ELSE IF Len(v.Text) > MaxUint16 THEN Fail("Text exceeds 65535 bytes")
            ELSE Ok(PutU16(Len(v.Lang)) \o v.Lang \o PutU16(Len(v.Text)) \o v.Text)
      [] v.type = TypeDateTime ->
            Ok(PutU16(v.fields[1]) \o SubSeq(v.fields, 2, 6)
               \o << (v.fields[7] \div 100000000) % 256,
                     (IF v.zone < 0 THEN 45 ELSE 43),
                     ((IF v.zone < 0 THEN -v.zone ELSE v.zone) \div 3600) % 256,
                     ((IF v.zone < 0 THEN -v.zone ELSE v.zone) \div 60) % 60 >>)
      [] v.type = TypeCollection -> Ok(<<>>)

\* TextWithLang.decode
decodeTextWithLang(data) ==
    IF Len(data) < 2 THEN Fail("invalid data format")
    ELSE LET langLen == Uint16(data)
             d1 == SubSeq(data, 3, Len(data))
         IN IF Len(d1) < langLen THEN Fail("invalid data format")
            ELSE LET lang == SubSeq(d1, 1, langLen)
                     d2 == SubSeq(d1, langLen + 1, Len(d1))
                 IN IF Len(d2) < 2 THEN Fail("invalid data format")
                    ELSE LET textLen == Uint16(d2)
                             d3 == SubSeq(d2, 3, Len(d2))
                         IN IF Len(d3) < textLen THEN Fail("invalid data format")
                            ELSE IF Len(d3) # textLen THEN Fail("invalid data format")
                            ELSE Ok(TextWithLang(lang, SubSeq(d3, 1, textLen)))

\* the days from 1970-01-01 to the day d (counted from 1, not bounded by
\* the length of the month) of the month m in 1..12 of the year y
DaysFromCivil(y, m, d) ==
    LET yy == IF m <= 2 THEN y - 1 ELSE y
        era == yy \div 400
        yoe == yy - era * 400
        doy == (153 * (IF m > 2 THEN m - 3 ELSE m + 9) + 2) \div 5 + d - 1
        doe == yoe * 365 + yoe \div 4 - yoe \div 100 + doy
    IN era * 146097 + doe - 719468

\* the year, month and day of the day z days after 1970-01-01
CivilFromDays(z) ==
    LET zz == z + 719468
        era == zz \div 146097
        doe == zz - era * 146097
        yoe == (doe - doe \div 1460 + doe \div 36524 - doe \div 146096) \div 365
        doy == doe - (365 * yoe + yoe \div 4 - yoe \div 100)
        mp == (5 * doy + 2) \div 153
        m == IF mp < 10 THEN mp + 3 ELSE mp - 9
    IN << (IF m <= 2 THEN yoe + era * 400 + 1 ELSE yoe + era * 400), m,
          doy - (153 * mp + 2) \div 5 + 1 >>

\* int(ds) * 100000000 of a build whose int has `bits` bits, as the tenths
\* of a second and the nanoseconds beyond them (the number is
\* tenth * 100000000 + rest): on 32 bits the product wraps, k times 2^32
\* = 42 * 100000000 + 94967296 is taken off it, as the signed arithmetic of
\* Go does; 100000000 is 256 * 390625
Nsec(ds, bits) ==
    LET k == IF bits = 32 THEN (ds * 390625 + 8388608) \div 16777216 ELSE 0
        over == k * 94967296
        tenths == ds - 42 * k - (over \div 100000000)
        below == over % 100000000
    IN IF below = 0 THEN [tenth |-> tenths, rest |-> 0]
       ELSE [tenth |-> tenths - 1, rest |-> 100000000 - below]

\* time.Date: the year, month, day, hour, minute, second and nanosecond of
\* the time it returns for the date and time f and the nanoseconds nsec;
\* values outside their ranges are normalised, each overflow carried into
\* the next field
Date(f, nsec) ==
    LET sec == f[6] + nsec.tenth \div 10
        min == f[5] + sec \div 60
        hour == f[4] + min \div 60
        day == f[3] + hour \div 24
        year == f[1] + (f[2] - 1) \div 12
        month == ((f[2] - 1) % 12) + 1
        ymd == CivilFromDays(DaysFromCivil(year, month, 1) + day - 1)
    IN ymd \o << hour % 24, min % 60, sec % 60,
                 (nsec.tenth % 10) * 100000000 + nsec.rest >>

\* Time.decode
decodeTime(data, bits) ==
    IF Len(data) # 9 /\ Len(data) # 11 THEN Fail("value must be 9 or 11 bytes")
    ELSE IF Len(data) = 11 /\ data[9] \notin {43, 45} THEN Fail("invalid data format")
    ELSE LET zone == IF Len(data) = 9 THEN 0
                     ELSE IF data[9] = 45 THEN -(3600 * data[10] + 60 * data[11])
                     ELSE 3600 * data[10] + 60 * data[11]
         IN Ok(Time(Date(<<Uint16(data)>> \o SubSeq(data, 3, 7),
                         Nsec(data[8], bits)), zone))

\* Void.decode, Integer.decode, ..., Binary.decode: the value of type `type`
\* decoded from the payload bytes; `bits` is the width of the build's int
decode(type, data, bits) ==
    CASE type = TypeVoid -> Ok(Void)
      [] type = TypeInteger ->
            IF Len(data) # 4 THEN Fail("value must be 4 bytes")
            ELSE Ok(Integer(Int32(data)))
      [] type = TypeBoolean ->
            IF Len(data) # 1 THEN Fail("value must be 1 byte")
            ELSE Ok(Boolean(data[1] # 0))
      [] type = TypeString -> Ok(String(data))
      [] type = TypeDateTime -> decodeTime(data, bits)
      [] type = TypeResolution ->
            IF Len(data) # 9 THEN Fail("value must be 9 bytes")
            ELSE Ok(Resolution(IntOfUint32(Uint32(SubSeq(data, 1, 4)), bits),
                               IntOfUint32(Uint32(SubSeq(data, 5, 8)), bits),
                               data[9]))
      [] type = TypeRange ->
            IF Len(data) # 8 THEN Fail("value must be 9 bytes")
            ELSE Ok(Range(IntOfUint32(Uint32(SubSeq(data, 1, 4)), bits),
                          IntOfUint32(Uint32(SubSeq(data, 5, 8)), bits)))
      [] type = TypeTextWithLang -> decodeTextWithLang(data)
      [] type = TypeBinary -> Ok(Binary(data))

(***************************************************************************)
(* Attributes                                                              *)
(***************************************************************************)
\* Values.Add that repeats the tag of the first value
ValuesAddFirstTag(values, t, v) ==
    Append(values, [T |-> IF values = <<>> THEN t ELSE values[1].T, V |-> v])

\* Values.Add
ValuesAdd(values, t, v) == Append(values, [T |-> t, V |-> v])

\* MakeAttribute
MakeAttribute(name, tag, value) ==
    [Name |-> name, Values |-> ValuesAdd(<<>>, tag, value)]

Panic == "panic"

\* Attribute.unpack on a fresh attribute named `name`: the attribute with
\* its first value, or the error; a tag without a value type panics
unpack(name, tag, value, bits) ==
    LET t == Type(tag)
    IN IF t = TypeInvalid THEN Fail(Panic)
       ELSE LET r == decode(IF t = TypeCollection THEN TypeVoid ELSE t, value, bits)
            IN IF r.err = NoError
               THEN Ok([Name |-> name, Values |-> ValuesAdd(<<>>, tag, r.val)])
               ELSE Fail(r.err)

(***************************************************************************)
(* Message (message.go of the field-per-group Message)                     *)
(***************************************************************************)
\* a nil slice of attributes, and a non-nil one
NilAttrs == [attrs |-> <<>>, nil |-> TRUE]
Attrs(as) == [attrs |-> as, nil |-> FALSE]

\* an Add that puts the attribute in front of those the group holds
AttributesAddFront(g, attr) == Attrs(<<attr>> \o g.attrs)

\* Attributes.Add: append allocates, so the slice is no longer nil
AttributesAdd(g, attr) == Attrs(Append(g.attrs, attr))

\* Message{}: the zero message, every group field nil
ZeroMessage ==
    [Version |-> 0, Code |-> 0, RequestID |-> Limbs(0),
     groups |-> [t \in GroupTagSet |-> NilAttrs]]

\* Message.attrGroups: the groups in the fixed order of the table, those
\* with nil Attributes skipped
RECURSIVE attrGroupsFrom(_, _)
attrGroupsFrom(m, i) ==
    IF i > Len(GroupTags) THEN <<>>
    ELSE IF m.groups[GroupTags[i]].nil THEN attrGroupsFrom(m, i + 1)
    ELSE <<[tag |-> GroupTags[i], attrs |-> m.groups[GroupTags[i]].attrs]>>
             \o attrGroupsFrom(m, i + 1)

attrGroups(m) == attrGroupsFrom(m, 1)

(***************************************************************************)
(* Comparison                                                              *)
(***************************************************************************)
RECURSIVE ValueEqual(_, _)
RECURSIVE ValuesEqual(_, _)
RECURSIVE AttributesEqual(_, _)

\* the instant of a Time, which time.Time.Equal compares: the day after
\* 1970-01-01 UTC, the second of that day and the nanosecond
Instant(t) ==
    LET secs == t.fields[4] * 3600 + t.fields[5] * 60 + t.fields[6] - t.zone
    IN << DaysFromCivil(t.fields[1], t.fields[2], t.fields[3]) + secs \div 86400,
          secs % 86400, t.fields[7] >>

\* ValueEqual: the same type, and then times by their instants, collections
\* by their attributes, every other value by its content
ValueEqual(v1, v2) ==
    IF v1.type # v2.type THEN FALSE
    ELSE IF v1.type = TypeDateTime THEN Instant(v1) = Instant(v2)
    ELSE IF v1.type = TypeCollection THEN AttributesEqual(v1.attrs, v2.attrs)
    ELSE v1 = v2

\* Values.Equal
ValuesEqual(values, values2) ==
    /\ Len(values) = Len(values2)
    /\ \A i \in 1..Len(values) :
          /\ values[i].T = values2[i].T
          /\ ValueEqual(values[i].V, values2[i].V)

\* Attributes.Equal: pairwise equal attributes, that is equal names and
\* equal values
AttributesEqual(attrs, attrs2) ==
    /\ Len(attrs) = Len(attrs2)
    /\ \A i \in 1..Len(attrs) :
          /\ attrs[i].Name = attrs2[i].Name
          /\ ValuesEqual(attrs[i].Values, attrs2[i].Values)

\* Message.Equal: the headers, and the groups of Message.Groups position by
\* position
Equal(m1, m2) ==
    LET groups1 == m1.Groups
        groups2 == m2.Groups
    IN /\ m1.Version = m2.Version
       /\ m1.Code = m2.Code
       /\ m1.RequestID = m2.RequestID
       /\ Len(groups1) = Len(groups2)
       /\ \A i \in 1..Len(groups1) :
             /\ groups1[i].Tag = groups2[i].Tag
             /\ AttributesEqual(groups1[i].Attrs, groups2[i].Attrs)

(***************************************************************************)
(* Groups (group.go)                                                       *)
(***************************************************************************)
RECURSIVE ValueSimilar(_, _)
RECURSIVE ValuesSimilar(_, _)
RECURSIVE AttributeSimilar(_, _)
RECURSIVE AttributesSimilar(_, _)

\* a mutation of ValueSimilar: a String and a Binary of the same bytes
\* differ, and so do collections with their members in another order
ValueSimilarStrict(v1, v2) == ValueEqual(v1, v2)

\* a mutation of AttributesSimilar: the attributes are compared position by
\* position
AttributesSimilarInOrder(attrs, attrs2) ==
    /\ Len(attrs) = Len(attrs2)
    /\ \A i \in 1..Len(attrs) : AttributeSimilar(attrs[i], attrs2[i])

\* ValueSimilar: equal values, a String and a Binary of the same bytes, or
\* two collections of similar attributes
ValueSimilar(v1, v2) ==
    \/ ValueEqual(v1, v2)
    \/ /\ {v1.type, v2.type} = {TypeString, TypeBinary}
       /\ v1.v = v2.v
    \/ /\ v1.type = TypeCollection
       /\ v2.type = TypeCollection
       /\ AttributesSimilar(v1.attrs, v2.attrs)

\* Values.Similar
ValuesSimilar(values, values2) ==
    /\ Len(values) = Len(values2)
    /\ \A i \in 1..Len(values) :
          /\ values[i].T = values2[i].T
          /\ ValueSimilar(values[i].V, values2[i].V)

\* Attribute.Similar
AttributeSimilar(a, b) ==
    a.Name = b.Name /\ ValuesSimilar(a.Values, b.Values)

\* Attributes.Similar: the same attributes, in any order
AttributesSimilar(attrs, attrs2) ==
    /\ Len(attrs) = Len(attrs2)
    /\ \E p \in Permutations(1..Len(attrs)) :
          \A i \in 1..Len(attrs) : AttributeSimilar(attrs[i], attrs2[p[i]])

\* Group{tag, attrs}
Group(t, attrs) == [Attrs |-> attrs, Tag |-> t]

\* Group.Equal
GroupEqual(g, g2) == g.Tag = g2.Tag /\ AttributesEqual(g.Attrs, g2.Attrs)

\* a mutation of GroupSimilar: the attributes are not compared
GroupSimilarTagOnly(g, g2) == g.Tag = g2.Tag

\* Group.Similar
GroupSimilar(g, g2) == g.Tag = g2.Tag /\ AttributesSimilar(g.Attrs, g2.Attrs)

\* Groups.Add
GroupsAdd(groups, g) == Append(groups, g)

\* Message.EnsureGroup(tag) on the groups of the Message: a panic on a tag
\* that is no group tag; the groups as they are when one of them has the
\* tag; otherwise a group of the tag with nil attributes is appended
EnsureGroup(groups, t) ==
    IF t \notin GroupTagSet THEN [panic |-> TRUE, groups |-> groups]
    ELSE IF \E i \in 1..Len(groups) : groups[i].Tag = t
    THEN [panic |-> FALSE, groups |-> groups]
    ELSE [panic |-> FALSE, groups |-> Append(groups, Group(t, <<>>))]

\* Groups.Equal
GroupsEqual(groups, groups2) ==
    /\ Len(groups) = Len(groups2)
    /\ \A i \in 1..Len(groups) : GroupEqual(groups[i], groups2[i])

\* the sorted sequence with g put behind the groups whose tag is not greater
RECURSIVE InsertByTag(_, _)
InsertByTag(sorted, g) ==
    IF sorted = <<>> THEN <<g>>
    ELSE IF g.Tag < sorted[Len(sorted)].Tag
    THEN Append(InsertByTag(SubSeq(sorted, 1, Len(sorted) - 1), g),
                sorted[Len(sorted)])
    ELSE Append(sorted, g)

\* a mutation of SliceStable: the groups are left as they are
SliceStableNone(groups) == groups

\* sort.SliceStable by Tag: groups of one tag keep their order
RECURSIVE SliceStable(_)
SliceStable(groups) ==
    IF groups = <<>> THEN <<>>
    ELSE InsertByTag(SliceStable(SubSeq(groups, 1, Len(groups) - 1)),
                     groups[Len(groups)])

\* The memory Groups values live in: heap[r] is the array r, a sequence of
\* Group structs.  A Groups value is a slice: the array it refers to and its
\* length.
Slice(r, n) == [array |-> r, len |-> n]

\* the groups of a slice
Elems(heap, groups) == SubSeq(heap[groups.array], 1, groups.len)

\* make(Groups, n): a slice of n zero Groups in an array of its own
make(heap, n) ==
    [heap |-> Append(heap, [i \in 1..n |-> Group(TagZero, <<>>)]),
     slice |-> Slice(Len(heap) + 1, n)]

\* copy(dst, src): the elements of src are stored into the array of dst, as
\* many as the shorter of the two has
copy(heap, dst, src) ==
    LET n == IF dst.len < src.len THEN dst.len ELSE src.len
    IN [heap EXCEPT ![dst.array] =
           [i \in 1..Len(@) |-> IF i <= n THEN heap[src.array][i] ELSE @[i]]]

\* a clone that is no copy: it returns the slice it was given
cloneShared(heap, groups) == [heap |-> heap, slice |-> groups]

\* Groups.clone: groups2 := make(Groups, len(groups)); copy(groups2, groups)
clone(heap, groups) ==
    LET groups2 == make(heap, groups.len)
    IN [heap |-> copy(groups2.heap, groups2.slice, groups), slice |-> groups2.slice]

\* sort.SliceStable(groups, less by Tag): the elements of the slice are
\* put in order in the array the slice refers to
SortSliceStable(heap, groups) ==
    [heap EXCEPT ![groups.array] =
        SliceStable(SubSeq(@, 1, groups.len)) \o SubSeq(@, groups.len + 1, Len(@))]

\* the comparison of Groups.Similar, of two sequences of one length
PairwiseSimilar(groups, groups2) ==
    \A i \in 1..Len(groups) : GroupSimilar(groups[i], groups2[i])

\* a mutation of GroupsSimilar: only the second sequence is sorted
GroupsSimilarOneSorted(groups, groups2) ==
    /\ Len(groups) = Len(groups2)
    /\ PairwiseSimilar(groups, SliceStable(groups2))

\* Groups.Similar on the memory: what it returns and the memory it leaves
SimilarOn(heap, groups, groups2) ==
    IF groups.len # groups2.len THEN [heap |-> heap, result |-> FALSE]
    ELSE LET c1 == clone(heap, groups)
             c2 == clone(c1.heap, groups2)
             h1 == SortSliceStable(c2.heap, c1.slice)
             h2 == SortSliceStable(h1, c2.slice)
         IN [heap |-> h2,
             result |-> PairwiseSimilar(Elems(h2, c1.slice), Elems(h2, c2.slice))]

\* Groups.Similar of two Groups values, each in an array of its own
GroupsSimilar(groups, groups2) ==
    SimilarOn(<<groups, groups2>>, Slice(1, Len(groups)), Slice(2, Len(groups2))).result


\* Message.Similar
MessageSimilar(m1, m2) ==
    /\ m1.Version = m2.Version
    /\ m1.Code = m2.Code
    /\ m1.RequestID = m2.RequestID
    /\ GroupsSimilar(m1.Groups, m2.Groups)

(***************************************************************************)
(* Decoder (messageDecoder).  md = [off, cnt]; the input stream is a       *)
(* sequence of bytes, the source delivers what is left of it and then EOF. *)
(***************************************************************************)
EOF == "EOF"

\* messageDecoder.read that takes the end of the source for zero bytes
readPadded(stream, md, n) ==
    LET avail == Len(stream) - md.cnt
        have == IF avail < 0 THEN 0 ELSE IF avail > n THEN n ELSE avail
    IN [err |-> NoError,
        data |-> SubSeq(stream, md.cnt + 1, md.cnt + have) \o [i \in 1..(n - have) |-> 0],
        md |-> [cnt |-> md.cnt + n, off |-> md.cnt]]

\* messageDecoder.read of n bytes
read(stream, md, n) ==
    LET avail == Len(stream) - md.cnt
    IN IF n <= avail
       THEN [err |-> NoError,
             data |-> SubSeq(stream, md.cnt + 1, md.cnt + n),
             md |-> [cnt |-> md.cnt + n, off |-> md.cnt]]
       ELSE [err |-> EOF,
             data |-> SubSeq(stream, md.cnt + 1, Len(stream)),
             md |-> [cnt |-> md.cnt + avail, off |-> md.cnt + avail]]

\* the number of bytes one Read or Write call moves: of the len bytes of
\* the buffer at most c, all of them if c = 0, and no more than avail
Moved(c, len, avail) ==
    LET want == IF c = 0 \/ c > len THEN len ELSE c
    IN IF want > avail THEN avail ELSE want

\* a mutation of readLoop: md.in.Read is called once
readOnce(stream, md, data, n, cs, i) ==
    LET k == Moved(cs[i], n, Len(stream) - md.cnt)
    IN [err |-> IF k > 0 THEN NoError ELSE EOF,
        data |-> data \o SubSeq(stream, md.cnt + 1, md.cnt + k),
        md |-> [cnt |-> md.cnt + k, off |-> md.off]]

\* the loop of messageDecoder.read for n more bytes, over a source whose
\* Read calls deliver at most cs[i], cs[i + 1], ... bytes, cs taken in a
\* circle, and which returns its error when it has no more bytes
RECURSIVE readLoop(_, _, _, _, _, _)
readLoop(stream, md, data, n, cs, i) ==
    IF n = 0 THEN [err |-> NoError, data |-> data, md |-> md]
    ELSE LET k == Moved(cs[i], n, Len(stream) - md.cnt)
         IN IF k > 0
            THEN readLoop(stream, [cnt |-> md.cnt + k, off |-> md.off],
                          data \o SubSeq(stream, md.cnt + 1, md.cnt + k),
                          n - k, cs, (i % Len(cs)) + 1)
            ELSE [err |-> EOF, data |-> data,
                  md |-> [cnt |-> md.cnt, off |-> md.cnt]]

\* messageDecoder.read of n bytes from a source that splits its bytes as cs
readChunks(stream, md, n, cs) ==
    readLoop(stream, [cnt |-> md.cnt, off |-> md.cnt], <<>>, n, cs, 1)

\* buf := make([]byte, n) after md.read(buf) has put data into it: the
\* bytes that were not read stay zero
Buffer(data, n) == data \o [i \in 1..(n - Len(data)) |-> 0]

\* messageDecoder.decodeU8: buf[0], zero when nothing was read
decodeU8(stream, md) ==
    LET r == read(stream, md, 1)
    IN [err |-> r.err, val |-> IF r.err = NoError THEN r.data[1] ELSE 0, md |-> r.md]

\* decodeTag through a reader that reads one byte ahead of the
\* End-of-attributes tag
decodeTagAhead(stream, md) ==
    LET r == decodeU8(stream, md)
    IN IF r.err = NoError /\ r.val = TagEnd /\ Len(stream) > r.md.cnt
       THEN [err |-> r.err, val |-> r.val, md |-> [cnt |-> r.md.cnt + 1, off |-> r.md.off]]
       ELSE r

\* messageDecoder.decodeTag
decodeTag(stream, md) == decodeU8(stream, md)

\* messageDecoder.decodeU16
decodeU16(stream, md) ==
    LET r == read(stream, md, 2)
    IN [err |-> r.err, val |-> Uint16(Buffer(r.data, 2)), md |-> r.md]

\* messageDecoder.decodeU32
decodeU32(stream, md) ==
    LET r == read(stream, md, 4)
    IN [err |-> r.err, val |-> Uint32(Buffer(r.data, 4)), md |-> r.md]

\* messageDecoder.decodeBytes
decodeBytes(stream, md) ==
    LET l == decodeU16(stream, md)
    IN IF l.err # NoError THEN [err |-> l.err, val |-> <<>>, md |-> l.md]
       ELSE LET r == read(stream, l.md, l.val)
            IN IF r.err # NoError THEN [err |-> r.err, val |-> <<>>, md |-> r.md]
               ELSE [err |-> NoError, val |-> r.data, md |-> r.md]

\* messageDecoder.decodeString
decodeString(stream, md) == decodeBytes(stream, md)

NoAttribute == [Name |-> <<>>, Values |-> <<>>]

\* the part of messageDecoder.decodeAttribute after the value is read: v is
\* the outcome of decodeBytes; the extension envelope, then Attribute.unpack
unpackAttribute(name, v, tag, bits) ==
    IF v.err # NoError THEN [err |-> v.err, attr |-> NoAttribute, md |-> v.md]
    ELSE IF tag = TagExtension /\ Len(v.val) < 4
    THEN [err |-> "Extension tag truncated", attr |-> NoAttribute, md |-> v.md]
    ELSE IF tag = TagExtension /\ v.val[1] >= 128
    THEN [err |-> "Extension tag out of range", attr |-> NoAttribute, md |-> v.md]
    ELSE
    LET u == unpack(name,
                    IF tag = TagExtension
                    THEN v.val[1] * 16777216 + v.val[2] * 65536
                             + v.val[3] * 256 + v.val[4]
                    ELSE tag,
                    IF tag = TagExtension THEN SubSeq(v.val, 5, Len(v.val))
                    ELSE v.val,
                    bits)
    IN IF u.err # NoError THEN [err |-> u.err, attr |-> NoAttribute, md |-> v.md]
       ELSE [err |-> NoError, attr |-> u.val, md |-> v.md]

\* messageDecoder.decodeAttribute: the name, then the raw value
decodeAttribute(stream, md, tag, bits) ==
    LET n == decodeString(stream, md)
    IN IF n.err # NoError THEN [err |-> n.err, attr |-> NoAttribute, md |-> n.md]
       ELSE unpackAttribute(n.val, decodeBytes(stream, n.md), tag, bits)

(***************************************************************************)
(* Encoder (messageEncoder).  Each operator yields the error and the bytes *)
(* it wrote to the sink; bytes written before a failure stay written.      *)
(***************************************************************************)
Wrote(e, bytes) == [err |-> e, out |-> bytes]

\* `if err == nil { err = <next write> }`, and `if err != nil { return err }`
\* before the next write: b is written only if a succeeded
AndThen(a, b) == IF a.err # NoError THEN a ELSE Wrote(b.err, a.out \o b.out)

\* a mutation of writeLoop: the retry offers the whole buffer again
writeAgain(data, out, offers, cs, i) ==
    LET k == Moved(cs[i], Len(data), Len(data))
    IN [err |-> NoError,
        out |-> IF k = Len(data) THEN out \o data
                ELSE out \o SubSeq(data, 1, k) \o data,
        offers |-> Append(offers, data)]

\* the loop of messageEncoder.write over a sink whose Write calls accept at
\* most cs[i], cs[i + 1], ... bytes, cs taken in a circle: what the sink
\* has accepted and the buffers it was offered
RECURSIVE writeLoop(_, _, _, _, _)
writeLoop(data, out, offers, cs, i) ==
    IF Len(data) = 0 THEN [err |-> NoError, out |-> out, offers |-> offers]
    ELSE LET k == Moved(cs[i], Len(data), Len(data))
         IN writeLoop(SubSeq(data, k + 1, Len(data)),
                      out \o SubSeq(data, 1, k),
                      Append(offers, data), cs, (i % Len(cs)) + 1)

\* messageEncoder.write to a sink that splits the bytes as cs
writeChunks(data, cs) == writeLoop(data, <<>>, <<>>, cs, 1)

\* messageEncoder.encodeU8, encodeU16, encodeU32, encodeTag
encodeU8(v) == Wrote(NoError, <<v % 256>>)
encodeU16(v) == Wrote(NoError, PutU16(v))
encodeU32(w) == Wrote(NoError, PutU32(w))
encodeTag(tag) == encodeU8(tag)

\* the error of encodeName and of encodeValue for a field of n bytes: the
\* text tells n, not the bound
ExceedsError(field, n) ==
    "Attribute " \o field \o " exceeds " \o ToString(n) \o " bytes"

\* encodeName without the check of the length
encodeNameUnchecked(name) == Wrote(NoError, PutU16(Len(name)) \o name)

\* messageEncoder.encodeName
encodeName(name) ==
    IF Len(name) > MaxUint16 THEN Wrote(ExceedsError("name", Len(name)), <<>>)
    ELSE Wrote(NoError, PutU16(Len(name)) \o name)

RECURSIVE encodeAttr(_)
RECURSIVE encodeValues(_, _, _)
RECURSIVE encodeValue(_, _)
RECURSIVE encodeCollection(_, _)
RECURSIVE encodeMembers(_, _)

\* the loop of encodeAttr over attr.Values, from value i on: tag, name and
\* value, each written only if the write before it succeeded; the values
\* after the first come without name
encodeValues(name, values, i) ==
    IF i > Len(values) THEN Wrote(NoError, <<>>)
    ELSE AndThen(encodeTag(values[i].T),
         AndThen(encodeName(name),
         AndThen(encodeValue(values[i].T, values[i].V),
                 encodeValues(<<>>, values, i + 1))))

\* encodeAttr without the check for an attribute that has no value
encodeAttrUnchecked(attr) == encodeValues(attr.Name, attr.Values, 1)

\* messageEncoder.encodeAttr
encodeAttr(attr) ==
    IF Len(attr.Values) = 0 THEN Wrote("Attribute without value", <<>>)
    ELSE encodeValues(attr.Name, attr.Values, 1)

\* encodeValue that writes the value whatever the type of the tag
encodeValueAnyType(tag, v0) ==
    IF Type(tag) = TypeInvalid THEN Wrote("Tag cannot be used for value", <<>>)
    ELSE IF encode(v0).err # NoError THEN Wrote(encode(v0).err, <<>>)
    ELSE IF Len(encode(v0).val) > MaxUint16
    THEN Wrote(ExceedsError("value", Len(encode(v0).val)), <<>>)
    ELSE IF v0.type = TypeCollection
    THEN AndThen(Wrote(NoError, PutU16(Len(encode(v0).val)) \o encode(v0).val),
                 encodeCollection(tag, v0.attrs))
    ELSE Wrote(NoError, PutU16(Len(encode(v0).val)) \o encode(v0).val)

\* messageEncoder.encodeValue
encodeValue(tag, v0) ==
    LET tagType == Type(tag)
    IN IF tagType = TypeInvalid THEN Wrote("Tag cannot be used for value", <<>>)
       ELSE IF tagType # TypeVoid /\ tagType # v0.type
       THEN Wrote("Tag: value of another type required", <<>>)
       ELSE
       LET v == IF tagType = TypeVoid THEN Void ELSE v0
           d == encode(v)
       IN IF d.err # NoError THEN Wrote(d.err, <<>>)
          ELSE IF Len(d.val) > MaxUint16
          THEN Wrote(ExceedsError("value", Len(d.val)), <<>>)
          ELSE IF v.type = TypeCollection
          THEN AndThen(Wrote(NoError, PutU16(Len(d.val)) \o d.val),
                       encodeCollection(tag, v.attrs))
          ELSE Wrote(NoError, PutU16(Len(d.val)) \o d.val)

\* the loop of encodeCollection over the members, from member i on
encodeMembers(collection, i) ==
    IF i > Len(collection) THEN Wrote(NoError, <<>>)
    ELSE IF collection[i].Name = <<>>
    THEN Wrote("Collection member without name", <<>>)
    ELSE AndThen(encodeAttr(MakeAttribute(<<>>, TagMemberName,
                                          String(collection[i].Name))),
         AndThen(encodeAttr([Name |-> <<>>, Values |-> collection[i].Values]),
                 encodeMembers(collection, i + 1)))

\* encodeCollection that ends without the EndCollection record
encodeCollectionOpen(tag, collection) == encodeMembers(collection, 1)

\* messageEncoder.encodeCollection
encodeCollection(tag, collection) ==
    AndThen(encodeMembers(collection, 1),
            encodeAttr(MakeAttribute(<<>>, TagEndCollection, Void)))

\* the attribute i of a group as messageEncoder.encode writes it
encodeGroupAttr(attr) ==
    IF attr.Name = <<>> THEN Wrote("Attribute without name", <<>>)
    ELSE encodeAttr(attr)

\* err and the bytes written after the attribute whose outcome is `a`, the
\* later attributes of the group having the outcome `rest`
Overwrite(a, rest) == Wrote(rest.err, a.out \o rest.out)

\* the inner loop of messageEncoder.encode over the attributes of a group:
\* err is assigned by every attribute and the loop has no break, so err is
\* that of the last attribute, and every attribute is written
RECURSIVE encodeGroupAttrs(_, _, _)
encodeGroupAttrs(attrs, i, err) ==
    IF i > Len(attrs) THEN Wrote(err, <<>>)
    ELSE Overwrite(encodeGroupAttr(attrs[i]),
                   encodeGroupAttrs(attrs, i + 1, encodeGroupAttr(attrs[i]).err))

\* the outer loop of messageEncoder.encode over attrGroups, from group i on;
\* an error in a group breaks the loop
RECURSIVE encodeGroups(_, _)
encodeGroups(groups, i) ==
    IF i > Len(groups) THEN Wrote(NoError, <<>>)
    ELSE AndThen(encodeTag(groups[i].tag),
         AndThen(encodeGroupAttrs(groups[i].attrs, 1, NoError),
                 encodeGroups(groups, i + 1)))

\* messageEncoder.encode
encodeMessage(m) ==
    AndThen(encodeU16(m.Version),
    AndThen(encodeU16(m.Code),
    AndThen(encodeU32(m.RequestID),
    AndThen(encodeGroups(attrGroups(m), 1),
            encodeTag(TagEnd)))))

(***************************************************************************)
(* Bounds and inputs                                                       *)
(***************************************************************************)
\* the number of records the byte source delivers to one Decode
MaxRecs == 7
\* the number of attributes and of additional values the caller adds
MaxAttrs == 2
MaxValues == 1
\* the number of groups of a Groups value
MaxGroups == 3
\* the number of members of a collection and the depth of its nesting
MaxMembers == 2
MaxDepth == 1

\* the widths of int among the builds of the package
IntSizes == {32, 64}

\* names: "a", "c", "m"
NameA == <<97>>
NameC == <<99>>
NameM == <<109>>

\* message headers the byte source starts with: version 1.1, Print-Job,
\* request id 1; and one cut short inside the request id
Headers == { <<1, 1, 0, 2, 0, 0, 0, 1>>, <<1, 1, 0, 2, 0, 5>> }

\* the records the byte source delivers: group delimiters, end of
\* attributes, the zero tag, a named integer attribute, a nameless boolean
\* value, a nameless integer value of one byte, a named and a nameless
\* begin of collection, a member name, an empty member name, an end of
\* collection, a record cut short after two bytes, and nothing (the source
\* is exhausted)
Records ==
    { <<TagOperationGroup>>, <<TagJobGroup>>, <<TagEnd>>, <<TagZero>>,
      <<TagInteger, 0, 1>> \o NameA \o <<0, 4, 0, 0, 0, 5>>,
      <<TagBoolean, 0, 0, 0, 1, 1>>,
      <<TagInteger, 0, 0, 0, 1, 7>>,
      <<TagBeginCollection, 0, 1>> \o NameC \o <<0, 0>>,
      <<TagBeginCollection, 0, 0, 0, 0>>,
      <<TagMemberName, 0, 0, 0, 1>> \o NameM,
      <<TagMemberName, 0, 0, 0, 0>>,
      <<TagEndCollection, 0, 0, 0, 0>>,
      <<TagInteger, 0>>,
      <<>> }

\* records in the extension envelope (tag 0x7f): a value of two bytes, a
\* 32-bit tag above 0x7fffffff, a named integer under the tag 0x21, a
\* nameless boolean under the tag 0x22, a nameless value under the group tag
\* 0x02; with them what a stream needs to hold them at the top level and in
\* a collection
ExtRecords ==
    { <<TagOperationGroup>>, <<TagEnd>>,
      <<TagExtension, 0, 0, 0, 2, 0, 0>>,
      <<TagExtension, 0, 0, 0, 4, 128, 0, 0, 0>>,
      <<TagExtension, 0, 1>> \o NameA \o <<0, 8, 0, 0, 0, TagInteger, 0, 0, 0, 5>>,
      <<TagExtension, 0, 0, 0, 5, 0, 0, 0, TagBoolean, 1>>,
      <<TagExtension, 0, 0, 0, 4, 0, 0, 0, TagJobGroup>>,
      <<TagBeginCollection, 0, 1>> \o NameC \o <<0, 0>>,
      <<TagMemberName, 0, 0, 0, 1>> \o NameM,
      <<TagEndCollection, 0, 0, 0, 0>>,
      <<>> }

\* records of tags the tag table does not hold: the tag 0x50 with a name
\* and without, the 32-bit tag 0x1234 in the extension envelope; each with
\* a value of two bytes
UnknownRecords ==
    { <<TagOperationGroup>>, <<TagEnd>>,
      <<80, 0, 1>> \o NameA \o <<0, 2, 9, 8>>,
      <<80, 0, 0, 0, 2, 7, 6>>,
      <<TagExtension, 0, 1>> \o NameC \o <<0, 6, 0, 0, 18, 52, 9, 8>>,
      <<>> }

\* a message followed in the stream by document data: with the
\* End-of-attributes tag the source has the first bytes of the document
FollowedRecords ==
    { <<TagOperationGroup>>,
      <<TagInteger, 0, 1>> \o NameA \o <<0, 4, 0, 0, 0, 5>>,
      <<TagEnd, 37, 80, 68, 70>>,
      <<>> }

\* a source that never ends: whenever it is read it has another group tag
\* or another attribute
EndlessRecords ==
    { <<TagOperationGroup>>,
      <<TagInteger, 0, 1>> \o NameA \o <<0, 4, 0, 0, 0, 5>> }

\* the streams the byte source may be: each delivers records of one set
Sources == { Records, ExtRecords, UnknownRecords, FollowedRecords }

\* the attributes the caller adds to a message; one of them has no value
AttrPool ==
    { MakeAttribute(NameA, TagInteger, Integer(5)),
      [Name |-> NameM, Values |-> <<>>],
      MakeAttribute(NameC, TagRange, Range(Limbs(-100), Limbs(200))),
      MakeAttribute(NameM, TagBeginCollection,
                    Collection(<<MakeAttribute(NameA, TagInteger, Integer(-1))>>)) }

\* the additional values the caller adds to the last attribute of a group
ValuePool ==
    { [T |-> TagBoolean, V |-> Boolean(TRUE)],
      [T |-> TagInteger, V |-> Boolean(TRUE)],
      [T |-> TagNoValue, V |-> Integer(5)] }

\* the group fields the caller populates
CallerGroups == {TagOperationGroup, TagJobGroup}

\* n bytes "x", built by doubling
RECURSIVE Bytes(_)
Bytes(n) ==
    IF n = 0 THEN <<>>
    ELSE IF n % 2 = 1 THEN <<120>> \o Bytes(n - 1)
    ELSE LET h == Bytes(n \div 2) IN h \o h

\* lengths of names and of strings around the largest a length prefix can
\* tell; lengths of the language and of the text of a TextWithLang, whose
\* payload is four bytes longer than the two together
NameLens == {1, 2, MaxUint16, MaxUint16 + 1}
StringLens == {0, MaxUint16, MaxUint16 + 1}
PartLens == {0, (MaxUint16 + 1) \div 2, MaxUint16 - 4, MaxUint16 + 1}

\* values by their lengths: a text of t bytes under TagText, a language of
\* l bytes and a text of t bytes under TagTextLang
LongShapes ==
    { [l |-> 0, t |-> n, T |-> TagText] : n \in StringLens }
    \cup { [l |-> ll, t |-> tt, T |-> TagTextLang] : ll \in PartLens, tt \in PartLens }

\* the value of a shape
LongValue(d) ==
    IF d.T = TagText THEN String(Bytes(d.t))
    ELSE TextWithLang(Bytes(d.l), Bytes(d.t))

(***************************************************************************)
(* State                                                                   *)
(***************************************************************************)
VARIABLES
    msg,        \* the Message the caller builds and encodes
    populated,  \* history: the group tags in the order the caller populated them
    out,        \* the bytes the encoder wrote to the sink
    encErr,     \* the error Encode returned
    in,         \* the bytes of the source of Decode delivered so far
    feeding,    \* TRUE when the source is a stream that still delivers records
    source,     \* the records the stream may deliver
    nrec,       \* the number of records the stream delivered
    bits,       \* the width of int of the build
    md,         \* messageDecoder: off, cnt
    m,          \* the Message Decode fills
    pc,         \* "build", "encoded", "top", "coll", "done", "panic", "reencoded"
    tag,        \* decode: the tag read last
    group,      \* decode: the tag of the current group field, 0 for nil
    prev,       \* decode: index of the previous attribute in the group, 0 for nil
    attr,       \* decode: the attribute whose collection is being decoded
    stack,      \* decodeCollection: the collections under construction
    ret,        \* the error Decode returned: [err, at]
    wireGroups, \* history: the groups as delimited in the stream
    tagPos,     \* history: the stream position of the tag byte read last, -1 if none
    before,     \* history: the decoder's variables before its latest iteration
    probe,      \* what Encode did with a message of one long attribute
    cmp,        \* two Groups values and the positions exchanged
    sim,        \* two Attributes values
    val,        \* a value on its own: the payload decoded and the result
    io,         \* a read from a source or a write to a sink that splits bytes
    coll        \* a Collection the caller builds and encodes as a value

vars == << msg, populated, out, encErr, in, feeding, source, nrec, bits, md,
           m, pc,
           tag, group, prev, attr, stack, ret, wireGroups, tagPos, before,
           probe, cmp, sim, val, io, coll >>

\* no collection built yet
NoCollection == [attrs |-> <<>>, err |-> NoError, out |-> <<>>, done |-> FALSE]

\* the values compared
auxVars == << cmp, sim, val, io, coll >>
encVars == << msg, populated, out, encErr, probe, auxVars >>
NoReturn == [err |-> NoError, at |-> 0]
\* no message with a long attribute was encoded yet
NoProbe == [n |-> -1]
\* nothing was read or written yet
NoTransfer == [n |-> 0, op |-> "none"]
\* no value was decoded yet
NoValue == [type |-> TypeInvalid]
\* two nil Attributes
NoAttributes == [a1 |-> <<>>, a2 |-> <<>>]
\* two nil Groups
NoGroups == [groups1 |-> <<>>, groups2 |-> <<>>, exchanged |-> <<>>]
NoStep == [m |-> ZeroMessage, cnt |-> 0, pc |-> "none", group |-> 0,
           prev |-> 0, stack |-> <<>>]

\* the state after construction, m0 being the Message handed to Decode
Start(m0) ==
    /\ msg = [ZeroMessage EXCEPT !.Version = 512, !.Code = 2, !.RequestID = Limbs(1)]
    /\ populated = <<>>
    /\ out = <<>>
    /\ encErr = NoError
    /\ in = <<>>
    /\ feeding = FALSE
    /\ source = Records
    /\ nrec = 0
    /\ bits \in IntSizes
    /\ md = [cnt |-> 0, off |-> 0]
    /\ m = m0
    /\ pc = "build"
    /\ tag = TagZero
    /\ group = 0
    /\ prev = 0
    /\ attr = NoAttribute
    /\ stack = <<>>
    /\ ret = NoReturn
    /\ wireGroups = <<>>
    /\ tagPos = -1
    /\ before = NoStep
    /\ probe = NoProbe
    /\ cmp = NoGroups
    /\ sim = NoAttributes
    /\ val = NoValue
    /\ io = NoTransfer
    /\ coll = NoCollection

\* a Message a Decode filled earlier: version 2.0, request id 7, and a Job
\* group with the attribute c
UsedMessage ==
    [ZeroMessage EXCEPT !.Version = 512, !.Code = 2, !.RequestID = Limbs(7),
                        !.groups[TagJobGroup] =
                            Attrs(<<MakeAttribute(NameC, TagInteger, Integer(1))>>)]

Init == Start(ZeroMessage)

\* the caller hands Decode a Message it has used before
InitReuse == Start(UsedMessage)

decVars == << in, feeding, source, nrec, md, m, tag, group, prev, attr, stack, ret,
              wireGroups, tagPos, before >>

(***************************************************************************)
(* The caller builds a message                                             *)
(***************************************************************************)
RECURSIVE SumAttrs(_, _)
SumAttrs(gs, i) == IF i > Len(gs) THEN 0 ELSE Len(gs[i].attrs) + SumAttrs(gs, i + 1)
NumAttrs(mm) == SumAttrs(attrGroups(mm), 1)

\* m.Operation.Add(attr), m.Job.Add(attr): Attributes.Add on a group field
AddAttr(g, a) ==
    /\ pc = "build"
    /\ NumAttrs(msg) < MaxAttrs
    /\ msg' = [msg EXCEPT !.groups[g] = AttributesAdd(@, a)]
    /\ populated' = IF msg.groups[g].nil THEN Append(populated, g) ELSE populated
    /\ UNCHANGED << out, encErr, bits, pc, probe, auxVars >>
    /\ UNCHANGED decVars

NumValues(mm) ==
    Cardinality({ <<g, i>> \in CallerGroups \X (1..MaxAttrs) :
                    /\ i <= Len(mm.groups[g].attrs)
                    /\ Len(mm.groups[g].attrs[i].Values) > 1 })

\* Values.Add on the last attribute of a group field
AddValue(g, v) ==
    /\ pc = "build"
    /\ ~msg.groups[g].nil
    /\ NumValues(msg) < MaxValues
    /\ LET l == Len(msg.groups[g].attrs)
       IN /\ Len(msg.groups[g].attrs[l].Values) = 1
          /\ msg' = [msg EXCEPT !.groups[g].attrs[l].Values = ValuesAdd(@, v.T, v.V)]
    /\ UNCHANGED << populated, out, encErr, bits, pc, probe, auxVars >>
    /\ UNCHANGED decVars

\* the unsigned 16-bit number at the offset `at` of bytes, -1 if the bytes
\* end before it
PrefixAt(bytes, at) ==
    IF Len(bytes) < at + 2 THEN -1 ELSE Uint16(SubSeq(bytes, at + 1, at + 2))

\* Message.Encode of a new message whose Operation group holds one attribute
\* with a name of n bytes and the value of the shape d, once in a run; of
\* the bytes written the state keeps the count and the length prefixes
EncodeLong(n, d) ==
    /\ pc = "build"
    /\ probe = NoProbe
    /\ LET e == encodeMessage(
                    [msg EXCEPT !.groups[TagOperationGroup] =
                        Attrs(<<MakeAttribute(Bytes(n), d.T, LongValue(d))>>)])
       IN probe' = [n |-> n, l |-> d.l, t |-> d.t, err |-> e.err,
                    lang |-> PrefixAt(e.out, 14 + n),
                    value |-> PrefixAt(e.out, 12 + n),
                    T |-> d.T,
                    name |-> PrefixAt(e.out, 10),
                    size |-> Len(e.out),
                    text |-> PrefixAt(e.out, 16 + n + d.l)]
    /\ UNCHANGED << msg, populated, out, encErr, bits, pc, auxVars >>
    /\ UNCHANGED decVars

\* Message.Encode to a sink that accepts every byte
Encode ==
    /\ pc = "build"
    /\ LET e == encodeMessage(msg)
       IN /\ out' = e.out
          /\ encErr' = e.err
    /\ pc' = "encoded"
    /\ UNCHANGED << msg, populated, bits, probe, auxVars >>
    /\ UNCHANGED decVars

(***************************************************************************)
(* Decode                                                                  *)
(***************************************************************************)
\* the errors of decode and decodeCollection, without the tag they print
ErrZeroTag == "Invalid tag 0"
ErrUnexpectedTag == "Unexpected tag"
ErrOrphan == "Additional value without preceding attribute"
ErrUngrouped == "Attribute without a group"
ErrCollDelimiter == "collection: unexpected tag"
ErrCollNoValue == "collection: unexpected tag, expected value tag"
ErrCollEmptyName == "collection: contains empty attribute name"
ErrCollNoMember == "collection: unexpected tag, expected memberAttrName"

\* a source that can run dry: among what it delivers is nothing
Ends(src) == <<>> \in src

\* what the source delivers next.  nrec is capped at MaxRecs: a source that
\* ends has ended by then, and a run over a source that does not end is
\* followed no further, the Decode being in its loop with md.read waiting
\* for the next record
Feed ==
    IF ~feeding THEN {<<>>}
    ELSE IF nrec < MaxRecs THEN source
    ELSE IF Ends(source) THEN {<<>>}
    ELSE {}

\* a decode whose loop goes round again when the source has failed
FinishRetries(e, md1) ==
    IF e = EOF
    THEN md' = md1 /\ UNCHANGED << pc, ret >>
    ELSE /\ md' = md1
         /\ pc' = IF e = Panic THEN "panic" ELSE "done"
         /\ ret' = IF e = NoError \/ e = Panic THEN NoReturn ELSE [err |-> e, at |-> md1.off]

\* decode returns: `e at 0x<md.off>` for an error e, nil otherwise; a panic
\* does not return
Finish(e, md1) ==
    /\ md' = md1
    /\ pc' = IF e = Panic THEN "panic" ELSE "done"
    /\ ret' = IF e = NoError \/ e = Panic THEN NoReturn ELSE [err |-> e, at |-> md1.off]

\* the header part of messageDecoder.decode
decodeHeader(stream, m0, md0) ==
    LET v == decodeU16(stream, md0)
        c == IF v.err = NoError THEN decodeU16(stream, v.md) ELSE v
        r == IF c.err = NoError THEN decodeU32(stream, c.md)
             ELSE [err |-> c.err, val |-> m0.RequestID, md |-> c.md]
    IN [err |-> r.err,
        m |-> [m0 EXCEPT !.Version = v.val,
                         !.Code = IF v.err = NoError THEN c.val ELSE @,
                         !.RequestID = IF c.err = NoError THEN r.val ELSE @],
        md |-> r.md]

\* messageDecoder.decode up to the first tag: a new messageDecoder reads the
\* header into the Message m0 from the bytes `first`, the start of the source
decodeFrom(first, m0) ==
    LET md0 == [cnt |-> 0, off |-> 0]
        h == decodeHeader(first, m0, md0)
    IN /\ in' = first
       /\ m' = h.m
       /\ nrec' = 0
       /\ tag' = TagZero /\ group' = 0 /\ prev' = 0
       /\ attr' = NoAttribute /\ stack' = <<>>
       /\ wireGroups' = <<>> /\ tagPos' = -1
       /\ before' = NoStep
       /\ IF h.err = NoError
          THEN md' = h.md /\ pc' = "top" /\ ret' = NoReturn
          ELSE Finish(h.err, h.md)

\* Message.Reset: *m = Message{}
Reset == ZeroMessage

\* a DecodeEx that leaves the Message as it is before md.decode(m)
DecodeExKeeps(first) == decodeFrom(first, m)

\* Message.DecodeEx: m.Reset(), then md.decode(m)
DecodeEx(first) == decodeFrom(first, Reset)

\* Message.Decode: m.DecodeEx(in, DecoderOptions{})
DecodeStart(first) == DecodeEx(first)

\* Message.Decode of the bytes Encode wrote
DecodeEncoded ==
    /\ pc = "encoded"
    /\ encErr = NoError
    /\ feeding' = FALSE
    /\ UNCHANGED source
    /\ DecodeStart(out)
    /\ UNCHANGED << encVars, bits >>

\* Message.Decode of a byte stream
DecodeStream ==
    /\ pc = "build"
    /\ populated = <<>>
    /\ feeding' = TRUE
    /\ source' \in Sources
    /\ \E h \in Headers : DecodeStart(h)
    /\ UNCHANGED << encVars, bits >>

\* decode that keeps the previous attribute across a delimiter tag
afterDelimiterKeeps(t, prev0) == prev0

\* decode: a delimiter tag forgets the previous attribute
afterDelimiter(t, prev0) == IF IsDelimiter(t) THEN 0 ELSE prev0

\* decode whose switch on the tag lets the collection tags through
topCaseNoUnexpected(t) ==
    CASE t = TagZero -> "zero"
      [] t = TagEnd -> "end"
      [] t \in GroupTagSet -> "group"
      [] OTHER -> "attribute"

\* decode: the switch on the tag
topCase(t) ==
    CASE t = TagZero -> "zero"
      [] t = TagEnd -> "end"
      [] t \in GroupTagSet -> "group"
      [] t = TagMemberName \/ t = TagEndCollection -> "unexpected"
      [] OTHER -> "attribute"

\* decode that takes an attribute without a group for an additional value
saveCaseNoUngrouped(name, prev1, group0) ==
    IF name = <<>> \/ group0 = 0
    THEN IF prev1 # 0 THEN "value" ELSE "orphan"
    ELSE "attribute"

\* decode: the switch that saves the attribute
saveCase(name, prev1, group0) ==
    IF name = <<>>
    THEN IF prev1 # 0 THEN "value" ELSE "orphan"
    ELSE IF group0 # 0 THEN "attribute" ELSE "ungrouped"

\* the end of an iteration of the loop of decode: attr is saved
Save(a, md1, prev1, wg) ==
    LET c == saveCase(a.Name, prev1, group)
    IN CASE c = "value" ->
              /\ m' = [m EXCEPT !.groups[group].attrs[prev1].Values =
                                    ValuesAdd(@, a.Values[1].T, a.Values[1].V)]
              /\ wireGroups' =
                    [wg EXCEPT ![Len(wg)].attrs[Len(wg[Len(wg)].attrs)].Values =
                                    ValuesAdd(@, a.Values[1].T, a.Values[1].V)]
              /\ prev' = prev1 /\ md' = md1 /\ pc' = "top"
              /\ UNCHANGED ret
         [] c = "orphan" ->
              /\ Finish(ErrOrphan, md1)
              /\ prev' = prev1 /\ wireGroups' = wg
              /\ UNCHANGED m
         [] c = "attribute" ->
              /\ m' = [m EXCEPT !.groups[group] = AttributesAdd(@, a)]
              /\ prev' = Len(m.groups[group].attrs) + 1
              /\ wireGroups' = [wg EXCEPT ![Len(wg)].attrs = Append(@, a)]
              /\ md' = md1 /\ pc' = "top"
              /\ UNCHANGED ret
         [] c = "ungrouped" ->
              /\ Finish(ErrUngrouped, md1)
              /\ prev' = prev1 /\ wireGroups' = wg
              /\ UNCHANGED m

\* the decoder's variables before an iteration
Snapshot == [m |-> m, cnt |-> md.cnt, pc |-> pc, group |-> group,
             prev |-> prev, stack |-> stack]

\* the default case of the switch of decode: `a` is the outcome of
\* decodeAttribute for the tag t; a collection goes on in decodeCollection,
\* every other attribute is saved
TopAttribute(a, t, prev1) ==
    /\ attr' = a.attr
    /\ IF a.err # NoError
       THEN /\ Finish(a.err, a.md)
            /\ prev' = prev1
            /\ UNCHANGED << m, group, stack, wireGroups >>
       ELSE IF t = TagBeginCollection
       THEN /\ stack' = << <<>> >>
            /\ pc' = "coll"
            /\ md' = a.md
            /\ prev' = prev1
            /\ UNCHANGED << m, group, ret, wireGroups >>
       ELSE /\ Save(a.attr, a.md, prev1, wireGroups)
            /\ UNCHANGED << group, stack >>

\* one iteration of the loop of messageDecoder.decode, up to the call of
\* decodeCollection if the attribute is a collection
DecodeTop ==
    /\ pc = "top"
    /\ \E rec \in Feed :
        LET stream == in \o rec
            t == decodeTag(stream, md)
            prev1 == afterDelimiter(t.val, prev)
            c == topCase(t.val)
        IN /\ in' = stream
           /\ nrec' = IF feeding /\ nrec < MaxRecs THEN nrec + 1 ELSE nrec
           /\ tag' = t.val
           /\ tagPos' = IF t.err = NoError THEN md.cnt ELSE tagPos
           /\ before' = Snapshot
           /\ CASE c = "zero" ->
                    /\ Finish(ErrZeroTag, t.md)
                    /\ prev' = prev1
                    /\ UNCHANGED << m, group, attr, stack, wireGroups >>
                [] c = "end" ->
                    /\ Finish(NoError, t.md)
                    /\ prev' = prev1
                    /\ UNCHANGED << m, group, attr, stack, wireGroups >>
                [] c = "group" ->
                    /\ group' = t.val
                    /\ prev' = prev1
                    /\ wireGroups' = Append(wireGroups, [tag |-> t.val, attrs |-> <<>>])
                    /\ md' = t.md
                    /\ UNCHANGED << m, pc, attr, stack, ret >>
                [] c = "unexpected" ->
                    /\ Finish(ErrUnexpectedTag, t.md)
                    /\ prev' = prev1
                    /\ UNCHANGED << m, group, attr, stack, wireGroups >>
                [] c = "attribute" ->
                    TopAttribute(decodeAttribute(stream, t.md, t.val, bits),
                                 t.val, prev1)
    /\ UNCHANGED << feeding, source, bits >>
    /\ UNCHANGED encVars

\* decodeCollection that lets a member without value be left
collTagErrorNoValueCheck(t, collection) ==
    IF IsDelimiter(t) THEN ErrCollDelimiter ELSE NoError

\* decodeCollection without the check for delimiter tags
collTagErrorNoDelimiter(t, collection) ==
    IF /\ t = TagMemberName \/ t = TagEndCollection
       /\ Len(collection) > 0
       /\ Len(collection[Len(collection)].Values) = 0
    THEN ErrCollNoValue
    ELSE NoError

\* decodeCollection: the checks of the tag made before the attribute is read
collTagError(t, collection) ==
    IF IsDelimiter(t) THEN ErrCollDelimiter
    ELSE IF /\ t = TagMemberName \/ t = TagEndCollection
            /\ Len(collection) > 0
            /\ Len(collection[Len(collection)].Values) = 0
    THEN ErrCollNoValue
    ELSE NoError

\* decodeCollection that takes a member name for good without a look at it
collCaseAnyName(t, name, collection) ==
    CASE t = TagEndCollection -> "end"
      [] t = TagMemberName -> "member"
      [] Len(collection) = 0 -> "no member"
      [] t = TagBeginCollection -> "begin"
      [] OTHER -> "value"

\* the switch of decodeCollection without the recursion: a BeginCollection
\* is a value like another
collCaseFlat(t, name, collection) ==
    CASE t = TagEndCollection -> "end"
      [] t = TagMemberName -> IF name = <<>> THEN "empty name" ELSE "member"
      [] Len(collection) = 0 -> "no member"
      [] OTHER -> "value"

\* decodeCollection: the switch that processes the attribute read
collCase(t, name, collection) ==
    CASE t = TagEndCollection -> "end"
      [] t = TagMemberName -> IF name = <<>> THEN "empty name" ELSE "member"
      [] Len(collection) = 0 -> "no member"
      [] t = TagBeginCollection -> "begin"
      [] OTHER -> "value"

\* decodeCollection fails: the error passes through every enclosing
\* decodeCollection to decode
CollectionFails(e, md1) ==
    /\ Finish(e, md1)
    /\ UNCHANGED << m, group, prev, attr, stack, wireGroups >>

\* the switch of decodeCollection: `a` is the outcome of decodeAttribute for
\* the tag t, at depth d of the nesting
CollectionAttribute(a, t, d) ==
    LET collection == stack[d]
        c == collCase(t, a.attr.Values[1].V.v, collection)
        whole == [attr EXCEPT !.Values[1].V = Collection(collection)]
    IN IF a.err # NoError
       THEN CollectionFails(a.err, a.md)
       ELSE
       CASE c = "end" /\ d > 1 ->
              /\ stack' =
                   [SubSeq(stack, 1, d - 1) EXCEPT
                       ![d - 1][Len(stack[d - 1])].Values =
                           ValuesAdd(@, TagBeginCollection,
                                     Collection(collection))]
              /\ md' = a.md
              /\ UNCHANGED << m, pc, group, prev, attr, ret, wireGroups >>
         [] c = "end" /\ d = 1 ->
              /\ Save(whole, a.md, prev, wireGroups)
              /\ attr' = whole
              /\ stack' = <<>>
              /\ UNCHANGED group
         [] c = "empty name" -> CollectionFails(ErrCollEmptyName, a.md)
         [] c = "member" ->
              /\ stack' = [stack EXCEPT ![d] =
                     Append(@, [Name |-> a.attr.Values[1].V.v,
                                Values |-> <<>>])]
              /\ md' = a.md
              /\ UNCHANGED << m, pc, group, prev, attr, ret, wireGroups >>
         [] c = "no member" -> CollectionFails(ErrCollNoMember, a.md)
         [] c = "begin" ->
              /\ stack' = Append(stack, <<>>)
              /\ md' = a.md
              /\ UNCHANGED << m, pc, group, prev, attr, ret, wireGroups >>
         [] c = "value" ->
              /\ stack' = [stack EXCEPT ![d][Len(collection)].Values =
                              ValuesAdd(@, t, a.attr.Values[1].V)]
              /\ md' = a.md
              /\ UNCHANGED << m, pc, group, prev, attr, ret, wireGroups >>

\* one iteration of the loop of messageDecoder.decodeCollection; when the
\* outermost collection ends, the iteration of decode that called it ends too
DecodeCollection ==
    /\ pc = "coll"
    /\ \E rec \in Feed :
        LET stream == in \o rec
            t == decodeTag(stream, md)
            e == collTagError(t.val, stack[Len(stack)])
        IN /\ in' = stream
           /\ nrec' = IF feeding /\ nrec < MaxRecs THEN nrec + 1 ELSE nrec
           /\ tag' = t.val
           /\ tagPos' = IF t.err = NoError THEN md.cnt ELSE tagPos
           /\ before' = Snapshot
           /\ IF t.err # NoError
              THEN CollectionFails(t.err, t.md)
              ELSE IF e # NoError
              THEN CollectionFails(e, t.md)
              ELSE CollectionAttribute(decodeAttribute(stream, t.md, t.val, bits),
                                       t.val, Len(stack))
    /\ UNCHANGED << feeding, source, bits >>
    /\ UNCHANGED encVars

\* Message.Encode of the message Decode returned, to a sink that accepts
\* every byte
Reencode ==
    /\ pc = "done"
    /\ ret.err = NoError
    /\ LET e == encodeMessage(m)
       IN /\ out' = e.out
          /\ encErr' = e.err
    /\ pc' = "reencoded"
    /\ UNCHANGED << msg, populated, bits, probe, auxVars >>
    /\ UNCHANGED decVars

Next ==
    \/ \E g \in CallerGroups, a \in AttrPool : AddAttr(g, a)
    \/ \E g \in CallerGroups, v \in ValuePool : AddValue(g, v)
    \/ Encode
    \/ DecodeEncoded
    \/ DecodeStream
    \/ DecodeTop
    \/ DecodeCollection
    \/ Reencode

Spec == Init /\ [][Next]_vars

\* the encoder on messages of one attribute with a long name or value
NextLengths == \E n \in NameLens, d \in LongShapes : EncodeLong(n, d)

SpecLengths == Init /\ [][NextLengths]_vars

\* the groups the Groups values are built of: two of one tag with
\* different attributes, one of a greater tag, one of a smaller tag
GroupPool ==
    { Group(TagJobGroup, <<MakeAttribute(NameA, TagInteger, Integer(1))>>),
      Group(TagJobGroup, <<MakeAttribute(NameC, TagInteger, Integer(2))>>),
      Group(TagPrinterGroup, <<MakeAttribute(NameC, TagInteger, Integer(2))>>),
      Group(TagOperationGroup, <<>>) }

\* groups.Add(g) on the first Groups value
AddFirst(g) ==
    /\ pc = "build"
    /\ Len(cmp.groups1) < MaxGroups
    /\ cmp' = [groups1 |-> GroupsAdd(cmp.groups1, g),
               groups2 |-> cmp.groups2,
               exchanged |-> <<>>]
    /\ UNCHANGED << msg, populated, out, encErr, probe, bits, pc, sim, val, io, coll >>
    /\ UNCHANGED decVars

\* groups2.Add(g) on the second Groups value
AddSecond(g) ==
    /\ pc = "build"
    /\ Len(cmp.groups2) < MaxGroups
    /\ cmp' = [groups1 |-> cmp.groups1,
               groups2 |-> GroupsAdd(cmp.groups2, g),
               exchanged |-> <<>>]
    /\ UNCHANGED << msg, populated, out, encErr, probe, bits, pc, sim, val, io, coll >>
    /\ UNCHANGED decVars

\* the attribute a caller adds to a group of a Groups value
AddedAttr == MakeAttribute(NameC, TagInteger, Integer(2))

\* Group.Add: g.Attrs.Add(a)
GroupAdd(g, a) == Group(g.Tag, Append(g.Attrs, a))

\* groups[i].Add(a) on the first Groups value; the second one gets the
\* groups so extended by Exchange
GroupAddFirst(i, a) ==
    /\ pc = "build"
    /\ i <= Len(cmp.groups1)
    /\ Len(cmp.groups1[i].Attrs) < MaxAttrs
    /\ cmp' = [groups1 |-> [cmp.groups1 EXCEPT ![i] = GroupAdd(@, a)],
               groups2 |-> cmp.groups2,
               exchanged |-> <<>>]
    /\ UNCHANGED << msg, populated, out, encErr, probe, bits, pc, sim, val, io, coll >>
    /\ UNCHANGED decVars

\* the second Groups value becomes the first one with the groups at the
\* positions i and j exchanged
Exchange(i, j) ==
    /\ pc = "build"
    /\ i < j
    /\ j <= Len(cmp.groups1)
    /\ cmp' = [groups1 |-> cmp.groups1,
               groups2 |-> [cmp.groups1 EXCEPT ![i] = cmp.groups1[j], ![j] = cmp.groups1[i]],
               exchanged |-> <<i, j>>]
    /\ UNCHANGED << msg, populated, out, encErr, probe, bits, pc, sim, val, io, coll >>
    /\ UNCHANGED decVars

\* the tags a caller hands to Message.EnsureGroup: a group tag, as
\* m.Operation() does, and the End-of-attributes tag, which is none
EnsuredTags == {TagOperationGroup, TagEnd}

\* m.EnsureGroup(t), the first Groups value being m.Groups and the second
\* one not yet built: a panic that ends the program, or the groups with a
\* group of the tag among them
EnsureGroupCall(t) ==
    /\ pc = "build"
    /\ cmp.groups2 = <<>>
    /\ LET e == EnsureGroup(cmp.groups1, t)
       IN /\ Len(e.groups) <= MaxGroups
          /\ pc' = IF e.panic THEN "panic" ELSE pc
          /\ cmp' = [groups1 |-> e.groups, groups2 |-> cmp.groups2, exchanged |-> <<>>]
          /\ e.panic \/ e.groups # cmp.groups1
    /\ UNCHANGED << msg, populated, out, encErr, probe, bits, sim, val, io, coll >>
    /\ UNCHANGED decVars

NextGroups ==
    \/ \E g \in GroupPool : AddFirst(g)
    \/ \E g \in GroupPool : AddSecond(g)
    \/ \E i, j \in 1..MaxGroups : Exchange(i, j)
    \/ \E i \in 1..MaxGroups : GroupAddFirst(i, AddedAttr)
    \/ \E t \in EnsuredTags : EnsureGroupCall(t)

SpecGroups == Init /\ [][NextGroups]_vars

\* the attributes the Attributes values are built of: one name with a
\* String, with a Binary of the same bytes, with a String of other bytes,
\* with an empty String and an empty Binary; another name with the first
\* String, with two values, with the two values exchanged, with the two
\* values under one tag; and two collections of the same members in
\* different orders
SimilarPool ==
    { MakeAttribute(NameA, TagString, String(<<120>>)),
      MakeAttribute(NameA, TagString, Binary(<<120>>)),
      MakeAttribute(NameA, TagString, String(<<121>>)),
      MakeAttribute(NameA, TagString, String(<<>>)),
      MakeAttribute(NameA, TagString, Binary(<<>>)),
      MakeAttribute(NameC, TagString, String(<<120>>)),
      [Name |-> NameC,
       Values |-> ValuesAdd(ValuesAdd(<<>>, TagInteger, Integer(5)),
                            TagEnum, Integer(6))],
      [Name |-> NameC,
       Values |-> ValuesAdd(ValuesAdd(<<>>, TagEnum, Integer(6)),
                            TagInteger, Integer(5))],
      [Name |-> NameC,
       Values |-> ValuesAdd(ValuesAdd(<<>>, TagInteger, Integer(5)),
                            TagInteger, Integer(6))],
      MakeAttribute(NameC, TagBeginCollection,
          Collection(<<MakeAttribute(NameA, TagInteger, Integer(1)),
                       MakeAttribute(NameM, TagString, String(<<120>>))>>)),
      MakeAttribute(NameC, TagBeginCollection,
          Collection(<<MakeAttribute(NameM, TagString, Binary(<<120>>)),
                       MakeAttribute(NameA, TagInteger, Integer(1))>>)) }

\* attrs.Add(a) on the first Attributes value
AttributesAddFirst(a) ==
    /\ Len(sim.a1) < MaxAttrs
    /\ sim' = [a1 |-> Append(sim.a1, a), a2 |-> sim.a2]
    /\ UNCHANGED << msg, populated, out, encErr, probe, bits, pc, cmp, val, io, coll >>
    /\ UNCHANGED decVars

\* attrs2.Add(a) on the second Attributes value
AttributesAddSecond(a) ==
    /\ Len(sim.a2) < MaxAttrs
    /\ sim' = [a1 |-> sim.a1, a2 |-> Append(sim.a2, a)]
    /\ UNCHANGED << msg, populated, out, encErr, probe, bits, pc, cmp, val, io, coll >>
    /\ UNCHANGED decVars

NextAttributes ==
    \/ \E a \in SimilarPool : AttributesAddFirst(a)
    \/ \E a \in SimilarPool : AttributesAddSecond(a)

SpecAttributes == Init /\ [][NextAttributes]_vars

\* DateTime payloads of 11 bytes: the year 2024 and every combination of
\* fields at and beyond the ends of their ranges
TimePayloads ==
    { <<7, 232, mo, d, h, mi, sc, ds, sg, uh, um>> :
        mo \in {0, 1, 12, 13}, d \in {0, 1, 31, 32}, h \in {0, 23, 24},
        mi \in {59, 60}, sc \in {60, 61}, ds \in {9, 10, 22}, sg \in {43, 45, 63},
        uh \in {13, 14}, um \in {59, 60} }

\* Time{}.decode(data), as Attribute.unpack calls it for TagDateTime
DecodeTime(data) ==
    /\ val = NoValue
    /\ val' = [type |-> TypeDateTime, data |-> data,
               res |-> decode(TypeDateTime, data, bits)]
    /\ UNCHANGED << msg, populated, out, encErr, probe, bits, pc, cmp, sim, io, coll >>
    /\ UNCHANGED decVars

\* the signed 32-bit numbers of the Range and Resolution values: the least
\* and the greatest, -100, -1, 0, 200 and others between
Int32s ==
    { [hi |-> h, lo |-> l] : h \in {-32768, -1, 0, 32767},
                             l \in {0, 200, 65436, 65535} }

\* Range{l, u} and Resolution{x, y, units} of these numbers
SignedValues ==
    { Range(l, u) : l, u \in Int32s }
        \cup { Resolution(x, y, u) : x, y \in Int32s, u \in {3, 4, 10} }

\* data, _ := v.encode(); Attribute.unpack(tag, data), as TestAttributeUnpack
\* does for a value v
EncodeDecode(v) ==
    /\ val = NoValue
    /\ val' = [v |-> v, type |-> v.type, data |-> encode(v).val,
               res |-> decode(v.type, encode(v).val, bits)]
    /\ UNCHANGED << msg, populated, out, encErr, probe, bits, pc, cmp, sim, io, coll >>
    /\ UNCHANGED decVars

\* one value in a run
NextValues ==
    /\ val = NoValue
    /\ \/ \E data \in TimePayloads : DecodeTime(data)
       \/ \E v \in SignedValues : EncodeDecode(v)

SpecValues == Init /\ [][NextValues]_vars

\* how a source or a sink splits the bytes: the most it moves in one call,
\* call after call in a circle; 0 is all that is asked for
Chunkings == { <<0>>, <<1>>, <<2>>, <<1, 2>>, <<3, 1>> }

\* the bytes of a message of one attribute with two values
SampleBytes ==
    encodeMessage([ZeroMessage EXCEPT
        !.Version = 257, !.Code = 2, !.RequestID = Limbs(1),
        !.groups[TagOperationGroup] =
            Attrs(<<[Name |-> NameA,
                     Values |-> ValuesAdd(ValuesAdd(<<>>, TagInteger, Integer(5)),
                                          TagEnum, Integer(6))]>>)]).out

\* the byte sequences a source holds or a write is given: the beginnings
\* of the sample message
SamplePrefixes == { SubSeq(SampleBytes, 1, k) : k \in 0..Len(SampleBytes) }

\* the numbers of bytes the decoder reads at once: a tag, a length, a
\* request id, a value
ReadSizes == {0, 1, 2, 4, 5}

\* messageDecoder.read of n bytes at the position cnt of a source that
\* holds stream and splits it as cs; and the same read when the source
\* delivers all that is asked for
ReadSplit(stream, cnt, n, cs) ==
    /\ io = NoTransfer
    /\ cnt <= Len(stream)
    /\ io' = [n |-> n, data |-> stream, cs |-> cs, op |-> "read",
              whole |-> read(stream, [cnt |-> cnt, off |-> 0], n),
              res |-> readChunks(stream, [cnt |-> cnt, off |-> 0], n, cs)]
    /\ UNCHANGED << msg, populated, out, encErr, probe, bits, pc, cmp, sim, val, coll >>
    /\ UNCHANGED decVars

\* messageEncoder.write of data to a sink that splits it as cs
WriteSplit(data, cs) ==
    /\ io = NoTransfer
    /\ io' = [n |-> Len(data), data |-> data, cs |-> cs, op |-> "write",
              res |-> writeChunks(data, cs)]
    /\ UNCHANGED << msg, populated, out, encErr, probe, bits, pc, cmp, sim, val, coll >>
    /\ UNCHANGED decVars

\* one read or one write in a run
NextTransfers ==
    /\ io = NoTransfer
    /\ \/ \E stream \in SamplePrefixes, cnt \in 0..Len(SampleBytes),
             n \in ReadSizes, cs \in Chunkings : ReadSplit(stream, cnt, n, cs)
       \/ \E data \in SamplePrefixes, cs \in Chunkings : WriteSplit(data, cs)

SpecTransfers == Init /\ [][NextTransfers]_vars

\* the members the caller adds to a collection: an integer, a member
\* without values, a member without name
MemberPool ==
    { MakeAttribute(NameA, TagInteger, Integer(5)),
      [Name |-> NameM, Values |-> <<>>],
      MakeAttribute(<<>>, TagInteger, Integer(5)) }

\* the values the caller adds to the last member: a boolean, and a boolean
\* under the tag of an integer
MemberValues ==
    { [T |-> TagBoolean, V |-> Boolean(TRUE)],
      [T |-> TagInteger, V |-> Boolean(TRUE)] }

\* the depth of nesting of the collections among the values of attrs
RECURSIVE Depth(_)
Depth(attrs) ==
    LET inner == { <<i, j>> \in (1..Len(attrs)) \X (1..MaxValues + 1) :
                      /\ j <= Len(attrs[i].Values)
                      /\ attrs[i].Values[j].V.type = TypeCollection }
        DepthAt(p) == 1 + Depth(attrs[p[1]].Values[p[2]].V.attrs)
    IN IF inner = {} THEN 0
       ELSE CHOOSE d \in { DepthAt(p) : p \in inner } :
               \A p \in inner : DepthAt(p) <= d

\* Collection.Add
CollectionAdd(a) ==
    /\ ~coll.done
    /\ Len(coll.attrs) < MaxMembers
    /\ coll' = [coll EXCEPT !.attrs = Append(@, a)]
    /\ UNCHANGED << msg, populated, out, encErr, probe, bits, pc, cmp, sim, val, io >>
    /\ UNCHANGED decVars

\* Values.Add on the last member of the collection
MemberAdd(x) ==
    /\ ~coll.done
    /\ coll.attrs # <<>>
    /\ Len(coll.attrs[Len(coll.attrs)].Values) <= MaxValues
    /\ coll' = [coll EXCEPT !.attrs[Len(coll.attrs)].Values = ValuesAdd(@, x.T, x.V)]
    /\ UNCHANGED << msg, populated, out, encErr, probe, bits, pc, cmp, sim, val, io >>
    /\ UNCHANGED decVars

\* the collection becomes the value of the one member of a new collection
Nest ==
    /\ ~coll.done
    /\ Depth(coll.attrs) < MaxDepth
    /\ coll' = [coll EXCEPT !.attrs =
                   <<MakeAttribute(NameM, TagBeginCollection, Collection(coll.attrs))>>]
    /\ UNCHANGED << msg, populated, out, encErr, probe, bits, pc, cmp, sim, val, io >>
    /\ UNCHANGED decVars

\* messageEncoder.encodeAttr of the attribute c whose value is the collection
EncodeCollectionValue ==
    /\ ~coll.done
    /\ LET w == encodeAttr(MakeAttribute(NameC, TagBeginCollection,
                                         Collection(coll.attrs)))
       IN coll' = [attrs |-> coll.attrs, err |-> w.err, out |-> w.out, done |-> TRUE]
    /\ UNCHANGED << msg, populated, out, encErr, probe, bits, pc, cmp, sim, val, io >>
    /\ UNCHANGED decVars

NextCollections ==
    \/ \E a \in MemberPool : CollectionAdd(a)
    \/ \E x \in MemberValues : MemberAdd(x)
    \/ Nest
    \/ EncodeCollectionValue

SpecCollections == Init /\ [][NextCollections]_vars

\* the streams decoded into a used Message
ReuseSources == { ExtRecords, FollowedRecords }

\* Message.Decode of a byte stream into the Message as the caller has it:
\* unused, or left by the Decode before
DecodeReused ==
    /\ pc \in {"build", "done"}
    /\ feeding' = TRUE
    /\ source' \in ReuseSources
    /\ \E h \in Headers : DecodeStart(h)
    /\ UNCHANGED << encVars, bits >>

\* Message.Decode of a source that never ends
DecodeEndless ==
    /\ pc \in {"build", "done"}
    /\ feeding' = TRUE
    /\ source' = EndlessRecords
    /\ \E h \in Headers : DecodeStart(h)
    /\ UNCHANGED << encVars, bits >>

NextReuse ==
    \/ DecodeReused
    \/ DecodeTop
    \/ DecodeCollection

SpecReuse == InitReuse /\ [][NextReuse]_vars

\* the positions of a source at which a read starts: the beginning, after
\* the header, after the first tag
ReadStarts == {0, 8, 9}

\* the bytes a sink has room for before its Write returns an error
SinkRooms == {0, 3, 64}

ErrSinkFull == "sink: no room"

\* messageDecoder.read(data) for len(data) = n is entered: md.off = md.cnt
ReadStart(stream, cnt, n, cs) ==
    /\ pc = "build"
    /\ io = NoTransfer
    /\ cnt <= Len(stream)
    /\ io' = [i |-> 1, n |-> n, err |-> NoError, data |-> stream,
              cnt |-> cnt, off |-> cnt, cs |-> cs,
              op |-> IF n = 0 THEN "returned" ELSE "reading"]
    /\ UNCHANGED << msg, populated, out, encErr, probe, bits, pc, cmp, sim, val, coll >>
    /\ UNCHANGED decVars

\* one turn of the loop of messageDecoder.read: a call of md.in.Read that
\* delivers k > 0 bytes, or none and an error
ReadCall ==
    /\ io.op = "reading"
    /\ LET k == Moved(io.cs[io.i], io.n, Len(io.data) - io.cnt)
       IN io' = IF k > 0
                THEN [io EXCEPT !.n = @ - k, !.cnt = @ + k,
                                !.i = (@ % Len(io.cs)) + 1,
                                !.op = IF io.n = k THEN "returned" ELSE "reading"]
                ELSE [io EXCEPT !.op = "returned", !.err = EOF, !.off = io.cnt]
    /\ UNCHANGED << msg, populated, out, encErr, probe, bits, pc, cmp, sim, val, coll >>
    /\ UNCHANGED decVars

\* messageEncoder.write(data) is entered, the sink having room for room bytes
WriteStart(data, cs, room) ==
    /\ pc = "build"
    /\ io = NoTransfer
    /\ io' = [i |-> 1, n |-> Len(data), err |-> NoError, data |-> data,
              cnt |-> 0, off |-> room, cs |-> cs,
              op |-> IF Len(data) = 0 THEN "returned" ELSE "writing"]
    /\ UNCHANGED << msg, populated, out, encErr, probe, bits, pc, cmp, sim, val, coll >>
    /\ UNCHANGED decVars

\* one turn of the loop of messageEncoder.write: a call of me.out.Write that
\* accepts k > 0 bytes, or returns an error
WriteCall ==
    /\ io.op = "writing"
    /\ LET k == Moved(io.cs[io.i], io.n, io.off - io.cnt)
       IN io' = IF k > 0
                THEN [io EXCEPT !.n = @ - k, !.cnt = @ + k,
                                !.i = (@ % Len(io.cs)) + 1,
                                !.op = IF io.n = k THEN "returned" ELSE "writing"]
                ELSE [io EXCEPT !.op = "returned", !.err = ErrSinkFull]
    /\ UNCHANGED << msg, populated, out, encErr, probe, bits, pc, cmp, sim, val, coll >>
    /\ UNCHANGED decVars

\* a Decode of a stream that ends or of one that does not, or one read, or
\* one write, in a run
NextTermination ==
    \/ io = NoTransfer /\ DecodeReused
    \/ io = NoTransfer /\ DecodeEndless
    \/ DecodeTop
    \/ DecodeCollection
    \/ /\ pc = "build"
       /\ io = NoTransfer
       /\ \E stream \in SamplePrefixes, cnt \in ReadStarts,
             n \in ReadSizes, cs \in Chunkings : ReadStart(stream, cnt, n, cs)
    \/ ReadCall
    \/ /\ pc = "build"
       /\ io = NoTransfer
       /\ \E data \in SamplePrefixes, cs \in Chunkings, room \in SinkRooms :
             WriteStart(data, cs, room)
    \/ WriteCall

\* the loops of decode, of decodeCollection, of read and of write go round
\* again as long as their conditions hold
SpecTermination ==
    /\ Init
    /\ [][NextTermination]_vars
    /\ WF_vars(DecodeTop)
    /\ WF_vars(DecodeCollection)
    /\ WF_vars(ReadCall)
    /\ WF_vars(WriteCall)

(***************************************************************************)
(* Properties                                                              *)
(***************************************************************************)
RECURSIVE WellFormedAttrs(_)
\* attributes as a caller should build them: named, with at least one value,
\* each value of the type of its tag, names and payloads of at most 65535
\* bytes, and the members of collections built alike
WellFormedAttrs(attrs) ==
    \A i \in 1..Len(attrs) :
       /\ attrs[i].Name # <<>>
       /\ Len(attrs[i].Name) <= MaxUint16
       /\ Len(attrs[i].Values) >= 1
       /\ \A j \in 1..Len(attrs[i].Values) :
             LET v == attrs[i].Values[j]
             IN /\ v.V.type = Type(v.T)
                /\ encode(v.V).err = NoError
                /\ Len(encode(v.V).val) <= MaxUint16
                /\ v.V.type = TypeCollection => WellFormedAttrs(v.V.attrs)

WellFormed(mm) ==
    \A i \in 1..Len(attrGroups(mm)) : WellFormedAttrs(attrGroups(mm)[i].attrs)

\* Decode has returned, or has panicked
Returned == pc \in {"done", "panic"}
\* Decode has returned nil
Succeeded == pc = "done" /\ ret.err = NoError
\* Decode has returned an error
Failed == pc = "done" /\ ret.err # NoError
\* Decode was given the bytes Encode wrote for msg
RoundTrip == ~feeding /\ out # <<>> /\ in = out

\* the tags of a sequence of groups
RECURSIVE TagsOf(_)
TagsOf(gs) == IF gs = <<>> THEN <<>> ELSE <<gs[1].tag>> \o TagsOf(Tail(gs))

\* the stream held groups of pairwise distinct tags, none of them empty
DistinctGroups ==
    /\ \A i, j \in 1..Len(wireGroups) : i # j => wireGroups[i].tag # wireGroups[j].tag
    /\ \A i \in 1..Len(wireGroups) : wireGroups[i].attrs # <<>>

\* the Message with Message.Groups that holds the groups of the tags `tags`
\* of the message mm, in that order
Grouped(mm, tags) ==
    [Version |-> mm.Version, Code |-> mm.Code, RequestID |-> mm.RequestID,
     Groups |-> [i \in 1..Len(tags) |-> Group(tags[i], mm.groups[tags[i]].attrs)]]

\* C1: for every well-formed message, Encode succeeds, Decode of the bytes
\* Encode wrote succeeds, and the decoded message equals the original by
\* Message.Equal, the groups of either message being those Message.attrGroups
\* lists for it.
C1_RoundTrip ==
    /\ (pc = "encoded" /\ WellFormed(msg)) => encErr = NoError
    /\ (Returned /\ RoundTrip /\ WellFormed(msg)) =>
          /\ Succeeded
          /\ Equal(Grouped(msg, TagsOf(attrGroups(msg))), Grouped(m, TagsOf(attrGroups(m))))

\* C2: Encode writes the groups in the order in which the caller populated
\* them, and Decode rebuilds the groups in the order in which they stand in
\* the byte stream.
C2_GroupOrder ==
    /\ (Succeeded /\ RoundTrip) => TagsOf(wireGroups) = populated
    /\ (Succeeded /\ DistinctGroups) => TagsOf(attrGroups(m)) = TagsOf(wireGroups)

\* C3: a stream in which a group tag occurs more than once decodes to one
\* group per occurrence, each with the attributes of that occurrence;
\* occurrences are never merged.
C3_RepeatedGroups ==
    ( /\ Succeeded
      /\ \E i, j \in 1..Len(wireGroups) : i # j /\ wireGroups[i].tag = wireGroups[j].tag
      /\ \A i \in 1..Len(wireGroups) : wireGroups[i].attrs # <<>> )
    => /\ Len(attrGroups(m)) = Len(wireGroups)
       /\ \A i \in 1..Len(wireGroups) :
             \E j \in 1..Len(attrGroups(m)) : attrGroups(m)[j] = wireGroups[i]

\* the stream offset of the value of the record whose tag was read last: the
\* tag, the length of the name, the name and the length of the value come
\* before it
ValuePos == tagPos + 5 + Uint16(<<in[tagPos + 2], in[tagPos + 3]>>)

\* the latest read of a tag byte delivered a zero byte
ZeroRead == tagPos = md.cnt - 1 /\ in[md.cnt] = 0

\* C4: when Decode fails, the offset in the error is the position
\* of the tag byte read last, never that of a later read of a name length,
\* name, value length or value.  Failures of the source are left aside.
C4_OffsetOfLastTag ==
    (Failed /\ tagPos >= 0 /\ ret.err # EOF /\ (ret.err = ErrZeroTag => ZeroRead))
    => ret.at = tagPos

\* the latest iteration was one of the loop of decode, or one of the loop of
\* decodeCollection, and it read a tag byte
TopStep == before.pc = "top" /\ tagPos = before.cnt
CollStep == before.pc = "coll" /\ tagPos = before.cnt

\* the tag read last is a value tag proper: no delimiter and none of the
\* tags that structure a collection
ValueTag == tag >= 16 /\ tag \notin {TagBeginCollection, TagMemberName, TagEndCollection}

\* the latest iteration read an attribute record at the top level, whole and
\* with a value that suits its tag: a plain record, or the EndCollection
\* record that completes a collection opened at the top level; attr is the
\* attribute decoded from it
RecordRead ==
    \/ TopStep /\ ValueTag /\ Len(attr.Values) = 1
    \/ CollStep /\ Len(before.stack) = 1 /\ stack = <<>>

\* the current group of the stream holds no attribute yet
NoPrevious == wireGroups = <<>> \/ wireGroups[Len(wireGroups)].attrs = <<>>

\* C5: a record with a value tag and an empty name that follows a named
\* attribute of the current group is appended to the values of that attribute
\* as a (tag, value) pair with its own tag; no attribute is created and the
\* values keep the order of the stream.
C5_Continuation ==
    (RecordRead /\ attr.Name = <<>> /\ ~NoPrevious) =>
       LET g == before.group
           old == before.m.groups[g].attrs
           new == m.groups[g].attrs
           wire == wireGroups[Len(wireGroups)].attrs
       IN /\ pc = "top"
          /\ Len(old) > 0
          /\ Len(new) = Len(old)
          /\ \A h \in GroupTagSet \ {g} : m.groups[h] = before.m.groups[h]
          /\ \A i \in 1..(Len(old) - 1) : new[i] = old[i]
          /\ new[Len(old)].Name = old[Len(old)].Name
          /\ new[Len(old)].Values = Append(old[Len(old)].Values, attr.Values[1])
          /\ attr.Values[1].T = tag \/ tag \in {TagExtension, TagEndCollection}
          /\ new[Len(new)] = wire[Len(wire)]

\* an attribute got a second value, of another tag than its first
C5_Witness ==
    /\ RecordRead /\ attr.Name = <<>> /\ ~NoPrevious
    /\ pc = "top"
    /\ LET a == m.groups[group].attrs[prev]
       IN /\ Len(a.Values) = 2
          /\ a.Values[1].T = TagInteger
          /\ a.Values[2].T = TagBoolean

\* C6: every group delimiter clears the previous attribute, and a record with
\* an empty name that no named attribute precedes in the current group makes
\* Decode fail with "Additional value without preceding attribute".
C6_OrphanValue ==
    /\ (TopStep /\ tag \in GroupTagSet) => prev = 0 /\ NoPrevious
    /\ (RecordRead /\ attr.Name = <<>> /\ NoPrevious) =>
          Failed /\ ret.err = ErrOrphan /\ m = before.m

\* a group held an attribute, the next group starts with a nameless value
C6_Witness ==
    /\ RecordRead /\ attr.Name = <<>> /\ NoPrevious
    /\ Len(wireGroups) = 2
    /\ wireGroups[1].attrs # <<>>
    /\ Failed

\* C7: a named attribute record that comes before every group delimiter makes
\* Decode fail with "Attribute without a group"; the attribute is not stored.
C7_UngroupedAttribute ==
    (RecordRead /\ attr.Name # <<>> /\ wireGroups = <<>>) =>
       /\ Failed /\ ret.err = ErrUngrouped
       /\ m = before.m
       /\ attrGroups(m) = <<>>

\* a named attribute, here a collection, came first in the stream
C7_Witness ==
    /\ RecordRead /\ attr.Name # <<>> /\ wireGroups = <<>>
    /\ attr.Values[1].T = TagBeginCollection
    /\ Failed

\* C8: at the top level the tag 0x00 makes Decode fail with "Invalid tag 0",
\* the tags MemberAttrName and EndCollection make it fail with "Unexpected
\* tag"; none of them adds anything to a group.
C8_IllegalTopLevelTags ==
    /\ (TopStep /\ tag = TagZero) =>
          Failed /\ ret.err = ErrZeroTag /\ m = before.m
    /\ (TopStep /\ tag \in {TagMemberName, TagEndCollection}) =>
          Failed /\ ret.err = ErrUnexpectedTag /\ m = before.m

\* a MemberAttrName record came after an attribute of a group
C8_Witness ==
    /\ TopStep /\ tag = TagMemberName
    /\ ~NoPrevious
    /\ Failed

\* the record whose tag was read last is whole in the stream
WholeRecord ==
    /\ tagPos >= 0
    /\ Len(in) >= tagPos + 3
    /\ Len(in) >= ValuePos
    /\ Len(in) >= ValuePos + Uint16(<<in[ValuePos - 1], in[ValuePos]>>)

\* the length of the value of that record
ValueLen == Uint16(<<in[ValuePos - 1], in[ValuePos]>>)

\* C9: in a collection, a value tag, BeginCollection included, whose record
\* comes whole before the first MemberAttrName makes Decode fail with
\* "collection: unexpected <tag>, expected memberAttrName", and the
\* collection stays as it was.
C9_ValueBeforeMemberName ==
    ( /\ CollStep
      /\ before.stack[Len(before.stack)] = <<>>
      /\ (ValueTag \/ tag = TagBeginCollection)
      /\ WholeRecord )
    => /\ Failed
       /\ ret.err = ErrCollNoMember
       /\ stack = before.stack

\* C10: in a collection, at any depth, a delimiter tag makes Decode fail with
\* "collection: unexpected <tag>"; only EndCollection ends a collection.
C10_DelimiterInCollection ==
    /\ (CollStep /\ tag < 16) => Failed /\ ret.err = ErrCollDelimiter
    /\ (CollStep /\ ~Failed /\ Len(stack) < Len(before.stack)) => tag = TagEndCollection
    /\ (before.pc = "coll" /\ pc = "top") => tag = TagEndCollection

\* the end tag of the message came inside a nested collection
C10_Witness ==
    /\ CollStep /\ tag = TagEnd
    /\ Len(before.stack) = 2
    /\ Failed /\ ret.err = ErrCollDelimiter

\* the collections among the values of attrs, at any depth, hold no member
\* without a value
RECURSIVE MembersValued(_)
MembersValued(attrs) ==
    \A i \in 1..Len(attrs) : \A j \in 1..Len(attrs[i].Values) :
       LET v == attrs[i].Values[j].V
       IN v.type = TypeCollection =>
             /\ \A k \in 1..Len(v.attrs) : Len(v.attrs[k].Values) >= 1
             /\ MembersValued(v.attrs)

\* before the latest iteration the member started last had no value yet
LastMemberEmpty ==
    LET c == before.stack[Len(before.stack)]
    IN c # <<>> /\ c[Len(c)].Values = <<>>

\* C11: in a collection, a MemberAttrName or an EndCollection read while the
\* member started last has no value makes Decode fail with "collection:
\* unexpected <tag>, expected value tag"; so every member of a collection of
\* a decoded message has at least one value.
C11_MissingMemberValue ==
    /\ (CollStep /\ tag \in {TagMemberName, TagEndCollection} /\ LastMemberEmpty) =>
          Failed /\ ret.err = ErrCollNoValue /\ stack = before.stack
    /\ Succeeded => \A g \in GroupTagSet : MembersValued(m.groups[g].attrs)

\* a collection was closed straight after a member name
C11_Witness ==
    /\ CollStep /\ tag = TagEndCollection /\ LastMemberEmpty
    /\ Failed /\ ret.err = ErrCollNoValue

\* the collections among the values of attrs, at any depth, hold no member
\* without a name
RECURSIVE MembersNamed(_)
MembersNamed(attrs) ==
    \A i \in 1..Len(attrs) : \A j \in 1..Len(attrs[i].Values) :
       LET v == attrs[i].Values[j].V
       IN v.type = TypeCollection =>
             /\ \A k \in 1..Len(v.attrs) : v.attrs[k].Name # <<>>
             /\ MembersNamed(v.attrs)

\* C12: in a collection, a MemberAttrName record whose value, the name of
\* the member, is empty makes Decode fail with "collection: <tag> contains
\* empty attribute name"; no collection, finished or under construction,
\* ever holds a member with an empty name.
C12_EmptyMemberName ==
    /\ ( /\ CollStep /\ tag = TagMemberName /\ ~LastMemberEmpty
         /\ WholeRecord /\ ValueLen = 0 )
       => Failed /\ ret.err = ErrCollEmptyName /\ stack = before.stack
    /\ \A d \in 1..Len(stack) :
          /\ \A k \in 1..Len(stack[d]) : stack[d][k].Name # <<>>
          /\ MembersNamed(stack[d])
    /\ \A g \in GroupTagSet : MembersNamed(m.groups[g].attrs)

\* an empty member name came after a member with a value
C12_Witness ==
    /\ CollStep /\ tag = TagMemberName /\ WholeRecord /\ ValueLen = 0
    /\ before.stack[Len(before.stack)] # <<>>
    /\ Failed /\ ret.err = ErrCollEmptyName

\* the bytes of the header of a message
HeaderBytes(mm) == PutU16(mm.Version) \o PutU16(mm.Code) \o PutU32(mm.RequestID)

\* the bytes of the attributes attrs[1..n] as encodeAttr writes them
RECURSIVE AttrBytes(_, _)
AttrBytes(attrs, n) ==
    IF n = 0 THEN <<>> ELSE AttrBytes(attrs, n - 1) \o encodeAttr(attrs[n]).out

\* the first group Encode writes, and the attribute that group ends with
FirstGroup == attrGroups(msg)[1]
LastOfFirst == FirstGroup.attrs[Len(FirstGroup.attrs)]

\* Encode has returned and the first group of the message ends with an
\* attribute that has a name but no value
EndsWithoutValue ==
    /\ pc = "encoded"
    /\ attrGroups(msg) # <<>>
    /\ FirstGroup.attrs # <<>>
    /\ LastOfFirst.Name # <<>>
    /\ LastOfFirst.Values = <<>>

\* C13: the encoding of an attribute that has no value fails with "Attribute
\* without value" and writes no byte for that attribute: when such an
\* attribute ends the first group, Encode returns that error and the sink
\* holds the header, the group tag and the attributes before it, no more.
C13_EmptyAttribute ==
    /\ EndsWithoutValue =>
          /\ encErr = "Attribute without value"
          /\ out = HeaderBytes(msg) \o <<FirstGroup.tag>>
                       \o AttrBytes(FirstGroup.attrs, Len(FirstGroup.attrs) - 1)
    /\ \A g \in GroupTagSet : \A i \in 1..Len(msg.groups[g].attrs) :
          msg.groups[g].attrs[i].Values = <<>> =>
             encodeAttr(msg.groups[g].attrs[i]) = Wrote("Attribute without value", <<>>)

\* an attribute without value came after one that was written
C13_Witness ==
    /\ EndsWithoutValue
    /\ Len(FirstGroup.attrs) = 2
    /\ FirstGroup.attrs[1].Values # <<>>
    /\ Len(out) > 9

\* the attributes attrs[i..] written up to the first that fails, and the
\* groups gs[k..] written up to the first that holds a failing attribute
RECURSIVE UntilFailure(_, _)
UntilFailure(attrs, i) ==
    IF i > Len(attrs) THEN Wrote(NoError, <<>>)
    ELSE AndThen(encodeGroupAttr(attrs[i]), UntilFailure(attrs, i + 1))

RECURSIVE GroupsUntilFailure(_, _)
GroupsUntilFailure(gs, k) ==
    IF k > Len(gs) THEN Wrote(NoError, <<>>)
    ELSE AndThen(Wrote(NoError, <<gs[k].tag>>),
         AndThen(UntilFailure(gs[k].attrs, 1), GroupsUntilFailure(gs, k + 1)))

\* some attribute of the message fails to encode
SomeAttributeFails ==
    \E g \in GroupTagSet : \E i \in 1..Len(msg.groups[g].attrs) :
       encodeGroupAttr(msg.groups[g].attrs[i]).err # NoError

\* C14: as soon as the encoding of an attribute of a group fails, Encode
\* stops: it returns that error and has written the message up to the
\* failure, no further attribute and no End-of-attributes byte; Encode never
\* returns nil for a message one of whose attributes failed to encode.
C14_EncodeErrorsFatal ==
    (pc = "encoded" /\ SomeAttributeFails) =>
       /\ encErr # NoError
       /\ encErr = GroupsUntilFailure(attrGroups(msg), 1).err
       /\ out = HeaderBytes(msg) \o GroupsUntilFailure(attrGroups(msg), 1).out

\* the value x, a (tag, value) pair, has a type other than that of its tag,
\* which is not Void
Mismatch(x) == Type(x.T) \notin {TypeInvalid, TypeVoid} /\ Type(x.T) # x.V.type

\* the value x has a tag of type Void and is not Void itself
VoidTagged(x) == Type(x.T) = TypeVoid /\ x.V.type # TypeVoid

\* Encode has returned, and the attribute the first group ends with has a
\* name and values of which the first j - 1 encode without error
EncodedUpTo(j) ==
    /\ pc = "encoded"
    /\ attrGroups(msg) # <<>>
    /\ FirstGroup.attrs # <<>>
    /\ LastOfFirst.Name # <<>>
    /\ j \in 1..Len(LastOfFirst.Values)
    /\ \A k \in 1..(j - 1) :
          encodeValue(LastOfFirst.Values[k].T, LastOfFirst.Values[k].V).err = NoError

\* C15: the encoding of a (tag, value) pair fails with "Tag <tag>: <type>
\* value required, <type> present" when the type of the tag is neither Void
\* nor the type of the value, and Encode returns that error; when the type
\* of the tag is Void the value is ignored and an empty payload is written
\* without error.
C15_TagTypeCheck ==
    /\ \A g \in GroupTagSet : \A i \in 1..Len(msg.groups[g].attrs) :
          \A j \in 1..Len(msg.groups[g].attrs[i].Values) :
             LET x == msg.groups[g].attrs[i].Values[j]
             IN /\ Mismatch(x) =>
                      encodeValue(x.T, x.V) =
                         Wrote("Tag: value of another type required", <<>>)
                /\ Type(x.T) = TypeVoid =>
                      encodeValue(x.T, x.V) = Wrote(NoError, <<0, 0>>)
    /\ \A j \in 1..MaxValues + 1 :
          (EncodedUpTo(j) /\ Mismatch(LastOfFirst.Values[j])) =>
             encErr = "Tag: value of another type required"
    /\ \A j \in 2..MaxValues + 1 :
          ( /\ EncodedUpTo(j) /\ VoidTagged(LastOfFirst.Values[j])
            /\ j = Len(LastOfFirst.Values) /\ Len(attrGroups(msg)) = 1 )
          => /\ encErr = NoError
             /\ SubSeq(out, Len(out) - 5, Len(out)) =
                   <<LastOfFirst.Values[j].T, 0, 0, 0, 0, TagEnd>>

\* a boolean was added under an integer tag, and Encode has returned
C15_Witness ==
    /\ EncodedUpTo(2)
    /\ Mismatch(LastOfFirst.Values[2])
    /\ encErr # NoError

\* the errors of the encoder for a value whose payload has n bytes, too many
FieldTooLong(n) ==
    { ExceedsError("value", n), "Lang exceeds 65535 bytes", "Text exceeds 65535 bytes" }

\* the length of the payload of the value of the message encoded last
ProbePayload == IF probe.T = TagText THEN probe.t ELSE 4 + probe.l + probe.t

\* C16: the encoding of an attribute whose name is longer than 65535 bytes,
\* or of a value whose payload is longer than 65535 bytes, fails with an
\* error that says so, and nothing of the field is written; every length
\* prefix on the wire is the length of the bytes that follow it.
C16_LengthBounds ==
    probe # NoProbe =>
       /\ probe.n > MaxUint16 =>
             /\ probe.err = ExceedsError("name", probe.n)
             /\ probe.size = 10
       /\ (probe.n <= MaxUint16 /\ ProbePayload > MaxUint16) =>
             /\ probe.err \in FieldTooLong(ProbePayload)
             /\ probe.size = 12 + probe.n
       /\ probe.err = NoError =>
             /\ probe.name = probe.n
             /\ probe.value = ProbePayload
             /\ probe.size = 15 + probe.n + ProbePayload
             /\ probe.T = TagTextLang =>
                   probe.lang = probe.l /\ probe.text = probe.t

\* a name of 65536 bytes was refused
C16_Witness ==
    /\ probe.n = MaxUint16 + 1
    /\ probe.err = "Attribute name exceeds 65536 bytes"
    /\ probe.size = 10

\* the record read last came whole in the extension envelope, with a value
\* of at least four bytes of which the first is below 0x80
Enveloped ==
    /\ tag = TagExtension
    /\ WholeRecord
    /\ ValueLen >= 4
    /\ in[ValuePos + 1] < 128

\* the 32-bit tag in the envelope
EnvelopeTag ==
    in[ValuePos + 1] * 16777216 + in[ValuePos + 2] * 65536
        + in[ValuePos + 3] * 256 + in[ValuePos + 4]

\* the value stored last at the top level: the last value of the last
\* attribute of the current group; and in the collection under construction:
\* the last value of its last member
LastStored ==
    LET as == wireGroups[Len(wireGroups)].attrs
    IN as[Len(as)].Values[Len(as[Len(as)].Values)]
LastMemberValue ==
    LET c == stack[Len(stack)]
    IN c[Len(c)].Values[Len(c[Len(c)].Values)]

\* C17: a record with the tag 0x7f makes Decode fail with "Extension tag
\* truncated" when its value has fewer than four bytes and with "Extension
\* tag out of range" when the first four bytes exceed 0x7fffffff; otherwise
\* the value is stored under the 32-bit number as its tag, at the top level
\* and in a collection alike, the rest of the bytes decoded by the type of
\* that tag.
C17_ExtensionEnvelope ==
    /\ (tag = TagExtension /\ WholeRecord /\ ValueLen < 4 /\ (TopStep \/ CollStep)) =>
          Failed /\ ret.err = "Extension tag truncated"
    /\ ( /\ tag = TagExtension /\ WholeRecord /\ ValueLen >= 4
         /\ in[ValuePos + 1] >= 128 /\ (TopStep \/ CollStep) ) =>
          Failed /\ ret.err = "Extension tag out of range"
    /\ (TopStep /\ Enveloped /\ pc = "top") =>
          /\ LastStored.T = EnvelopeTag
          /\ LastStored.V.type = Type(EnvelopeTag)
    /\ (CollStep /\ Enveloped /\ pc = "coll") =>
          /\ LastMemberValue.T = EnvelopeTag
          /\ LastMemberValue.V.type = Type(EnvelopeTag)

\* the tags of the tag table
KnownTags ==
    { TagZero, TagOperationGroup, TagJobGroup, TagEnd, TagPrinterGroup,
      TagUnsupportedGroup, TagSubscriptionGroup, TagEventNotificationGroup,
      TagResourceGroup, TagDocumentGroup, TagSystemGroup, TagFuture11Group,
      TagFuture12Group, TagFuture13Group, TagFuture14Group, TagFuture15Group,
      TagUnsupportedValue, TagDefault, TagUnknown, TagNoValue, TagNotSettable,
      TagDeleteAttr, TagAdminDefine, TagInteger, TagBoolean, TagEnum, TagString,
      TagDate, TagResolution, TagRange, TagBeginCollection, TagTextLang,
      TagNameLang, TagEndCollection, TagText, TagName, TagReservedString,
      TagKeyword, TagUri, TagUriScheme, TagCharset, TagLanguage, TagMimeType,
      TagMemberName, TagExtension }

\* the tags of all values of the decoded message
DecodedTags ==
    { m.groups[g].attrs[i].Values[j].T :
        <<g, i, j>> \in { x \in GroupTagSet \X (1..MaxRecs) \X (1..MaxRecs) :
                            /\ x[2] <= Len(m.groups[x[1]].attrs)
                            /\ x[3] <= Len(m.groups[x[1]].attrs[x[2]].Values) } }

\* C18: an attribute whose tag the tag table does not hold, a 32-bit tag
\* from the extension envelope included, decodes as a Binary value, and
\* Encode of the decoded message writes the bytes of its record again.
C18_ForwardCompatible ==
    /\ \A g \in GroupTagSet : \A i \in 1..Len(m.groups[g].attrs) :
          \A j \in 1..Len(m.groups[g].attrs[i].Values) :
             LET x == m.groups[g].attrs[i].Values[j]
             IN x.T \notin KnownTags => x.V.type = TypeBinary
    /\ ( /\ pc = "reencoded"
         /\ Len(wireGroups) = 1
         /\ DecodedTags # {}
         /\ DecodedTags \cap KnownTags = {} )
       => encErr = NoError /\ out = in

\* the headers of the messages compared
ComparedHeaders == { <<0, 0, Limbs(0)>>, <<1, 0, Limbs(0)>>, <<0, 1, Limbs(0)>>,
                     <<0, 0, Limbs(1)>> }

\* Message{Version, Code, RequestID, Groups}
MessageOf(h, groups) ==
    [Version |-> h[1], Code |-> h[2], RequestID |-> h[3], Groups |-> groups]

\* C19: every Groups value and every message is Similar to itself, and two
\* Groups values or two messages that are Equal are Similar.
C19_SimilarReflexiveWeaker ==
    /\ GroupsSimilar(cmp.groups1, cmp.groups1)
    /\ GroupsEqual(cmp.groups1, cmp.groups2) =>
          GroupsSimilar(cmp.groups1, cmp.groups2)
    /\ \A h1, h2 \in ComparedHeaders :
          /\ MessageSimilar(MessageOf(h1, cmp.groups1), MessageOf(h1, cmp.groups1))
          /\ Equal(MessageOf(h1, cmp.groups1), MessageOf(h2, cmp.groups2)) =>
                MessageSimilar(MessageOf(h1, cmp.groups1), MessageOf(h2, cmp.groups2))

\* two Equal Groups values of three groups which Similar has to sort
C19_Witness ==
    /\ Len(cmp.groups1) = MaxGroups
    /\ GroupsEqual(cmp.groups1, cmp.groups2)
    /\ SliceStable(cmp.groups1) # cmp.groups1

\* the second Groups value is the first one with two groups of distinct
\* tags exchanged
ExchangedDistinct ==
    /\ cmp.exchanged # <<>>
    /\ cmp.groups1[cmp.exchanged[1]].Tag # cmp.groups1[cmp.exchanged[2]].Tag

\* no group between the two exchanged ones carries the tag of one of them
NoneBetween ==
    \A k \in (cmp.exchanged[1] + 1)..(cmp.exchanged[2] - 1) :
       /\ cmp.groups1[k].Tag # cmp.groups1[cmp.exchanged[1]].Tag
       /\ cmp.groups1[k].Tag # cmp.groups1[cmp.exchanged[2]].Tag

\* C20 as stated: a Groups value with two groups of distinct tags exchanged
\* is Similar to the original and not Equal to it.
C20_ExchangeDistinctTags ==
    ExchangedDistinct =>
       /\ GroupsSimilar(cmp.groups1, cmp.groups2)
       /\ ~GroupsEqual(cmp.groups1, cmp.groups2)

\* C20 amended: a Groups value with two groups of distinct tags exchanged,
\* no group between them carrying the tag of either, is Similar to the
\* original and not Equal to it.
C20_ExchangeKeepingTagOrder ==
    (ExchangedDistinct /\ NoneBetween) =>
       /\ GroupsSimilar(cmp.groups1, cmp.groups2)
       /\ ~GroupsEqual(cmp.groups1, cmp.groups2)

\* the first and the third of three groups of three tags are exchanged
C20_Witness ==
    /\ ExchangedDistinct
    /\ NoneBetween
    /\ cmp.exchanged = <<1, 3>>
    /\ SliceStable(cmp.groups2) # cmp.groups2

\* the second Groups value is the first one with two groups of one tag
\* exchanged
ExchangedSameTag ==
    /\ cmp.exchanged # <<>>
    /\ cmp.groups1[cmp.exchanged[1]].Tag = cmp.groups1[cmp.exchanged[2]].Tag

\* the attributes of the two groups exchanged are not similar
ExchangedDissimilar ==
    ~AttributesSimilar(cmp.groups1[cmp.exchanged[1]].Attrs,
                       cmp.groups1[cmp.exchanged[2]].Attrs)

\* C21 as stated: a Groups value with two groups of one tag exchanged is
\* not Similar to the original.
C21_ExchangeSameTag ==
    ExchangedSameTag => ~GroupsSimilar(cmp.groups1, cmp.groups2)

\* C21 amended: a Groups value with two groups of one tag exchanged, the
\* attributes of the two not being similar, is not Similar to the original.
C21_ExchangeDissimilarSameTag ==
    (ExchangedSameTag /\ ExchangedDissimilar) =>
       ~GroupsSimilar(cmp.groups1, cmp.groups2)

\* two groups of one tag with different attributes are exchanged across a
\* group of another tag
C21_Witness ==
    /\ ExchangedSameTag
    /\ ExchangedDissimilar
    /\ cmp.exchanged = <<1, 3>>
    /\ cmp.groups1[2].Tag # cmp.groups1[1].Tag

\* the attributes x and y may be paired: equal names, value lists of one
\* length, pairwise equal tags and pairwise similar values
Paired(x, y) ==
    /\ x.Name = y.Name
    /\ Len(x.Values) = Len(y.Values)
    /\ \A j \in 1..Len(x.Values) :
          /\ x.Values[j].T = y.Values[j].T
          /\ ValueSimilar(x.Values[j].V, y.Values[j].V)

\* there is a one-to-one pairing of the elements of the two Attributes
OneToOne ==
    /\ Len(sim.a1) = Len(sim.a2)
    /\ \E p \in Permutations(1..Len(sim.a1)) :
          \A i \in 1..Len(sim.a1) : Paired(sim.a1[i], sim.a2[p[i]])

\* the number of attributes of attrs that x may be paired with
PairedCount(x, attrs) ==
    Cardinality({ k \in 1..Len(attrs) : Paired(x, attrs[k]) })

\* every attribute has as many partners in the one Attributes as in the other
CountsAgree ==
    /\ Len(sim.a1) = Len(sim.a2)
    /\ \A i \in 1..Len(sim.a1) :
          PairedCount(sim.a1[i], sim.a1) = PairedCount(sim.a1[i], sim.a2)

\* the attribute x with its values in the opposite order
Reversed(x) ==
    [Name |-> x.Name,
     Values |-> [j \in 1..Len(x.Values) |-> x.Values[Len(x.Values) + 1 - j]]]

\* the two values of x differ in the tag or, being integers, in the number
TwoDifferent(x) ==
    /\ Len(x.Values) = 2
    /\ \/ x.Values[1].T # x.Values[2].T
       \/ /\ x.Values[1].V.type = TypeInteger
          /\ x.Values[2].V.type = TypeInteger
          /\ x.Values[1].V.v # x.Values[2].V.v

\* the names and the strings of the tests of the repository
Attr1 == <<97, 116, 116, 114, 49>>
Attr2 == <<97, 116, 116, 114, 50>>
Hello == <<104, 101, 108, 108, 111>>
World == <<119, 111, 114, 108, 100>>

\* the table of TestValueEqualSimilar, the rows of the current time left
\* out: pairs of values with the answers the test expects of ValueEqual and
\* of ValueSimilar
ValueTests ==
    << [v1 |-> Integer(0), v2 |-> Integer(0), equal |-> TRUE, similar |-> TRUE],
      [v1 |-> Integer(0), v2 |-> Integer(1), equal |-> FALSE, similar |-> FALSE],
      [v1 |-> Integer(0), v2 |-> String(Hello), equal |-> FALSE, similar |-> FALSE],
      [v1 |-> Binary(<<>>), v2 |-> Binary(<<>>), equal |-> TRUE, similar |-> TRUE],
      [v1 |-> Binary(<<>>), v2 |-> Binary(<<1, 2, 3>>), equal |-> FALSE, similar |-> FALSE],
      [v1 |-> Binary(<<1, 2, 3>>), v2 |-> Binary(<<4, 5, 6>>), equal |-> FALSE,
       similar |-> FALSE],
      [v1 |-> Binary(Hello), v2 |-> Binary(Hello), equal |-> TRUE, similar |-> TRUE],
      [v1 |-> String(Hello), v2 |-> String(Hello), equal |-> TRUE, similar |-> TRUE],
      [v1 |-> Binary(Hello), v2 |-> String(Hello), equal |-> FALSE, similar |-> TRUE],
      [v1 |-> String(Hello), v2 |-> Binary(Hello), equal |-> FALSE, similar |-> TRUE],
      [v1 |-> Collection(<<>>), v2 |-> Collection(<<>>), equal |-> TRUE, similar |-> TRUE],
      [v1 |-> Collection(<<MakeAttribute(Attr1, TagInteger, Integer(1)),
                           MakeAttribute(Attr2, TagString, String(Hello))>>),
       v2 |-> Collection(<<MakeAttribute(Attr2, TagString, String(Hello)),
                           MakeAttribute(Attr1, TagInteger, Integer(1))>>),
       equal |-> FALSE, similar |-> TRUE] >>

\* the table of TestAttributesEqualSimilar: pairs of Attributes with the
\* answer the test expects of Attributes.Similar
AttributesTests ==
    << [a1 |-> <<>>, a2 |-> <<>>, similar |-> TRUE],
      [a1 |-> <<MakeAttribute(Attr1, TagInteger, Integer(0))>>, a2 |-> <<>>,
       similar |-> FALSE],
      [a1 |-> <<MakeAttribute(Attr1, TagInteger, Integer(0))>>,
       a2 |-> <<MakeAttribute(Attr1, TagInteger, Integer(0))>>,
       similar |-> TRUE],
      [a1 |-> <<MakeAttribute(Attr1, TagInteger, Integer(0))>>,
       a2 |-> <<MakeAttribute(Attr1, TagInteger, Integer(1))>>,
       similar |-> FALSE],
      [a1 |-> <<MakeAttribute(Attr1, TagInteger, Integer(0))>>,
       a2 |-> <<MakeAttribute(Attr1, TagEnum, Integer(0))>>,
       similar |-> FALSE],
      [a1 |-> <<MakeAttribute(Attr1, TagString, Binary(Hello)),
                MakeAttribute(Attr2, TagString, String(World))>>,
       a2 |-> <<MakeAttribute(Attr1, TagString, String(Hello)),
                MakeAttribute(Attr2, TagString, Binary(World))>>,
       similar |-> TRUE],
      [a1 |-> <<MakeAttribute(Attr1, TagString, String(Hello)),
                MakeAttribute(Attr2, TagString, String(World))>>,
       a2 |-> <<MakeAttribute(Attr2, TagString, String(World)),
                MakeAttribute(Attr1, TagString, String(Hello))>>,
       similar |-> TRUE] >>

ValuesOf(attrs) ==
    { x \in (1..MaxAttrs) \X (1..(MaxValues + 1)) :
        /\ x[1] <= Len(attrs)
        /\ x[2] <= Len(attrs[x[1]].Values) }

\* the value of attrs at the position x
ValueAt(attrs, x) == attrs[x[1]].Values[x[2]].V

\* a String and a Binary, compared in both argument orders: never Equal,
\* and Similar exactly if of the same bytes
StringBinary(v1, v2) ==
    (v1.type = TypeString /\ v2.type = TypeBinary) =>
       /\ ~ValueEqual(v1, v2)
       /\ ~ValueEqual(v2, v1)
       /\ v1.v = v2.v => ValueSimilar(v1, v2) /\ ValueSimilar(v2, v1)
       /\ v1.v # v2.v => ~ValueSimilar(v1, v2) /\ ~ValueSimilar(v2, v1)

FieldsInRange(data) ==
    /\ data[3] \in 1..12
    /\ data[4] \in 1..31
    /\ data[5] \in 0..23
    /\ data[6] \in 0..59
    /\ data[7] \in 0..60
    /\ data[8] \in 0..9
    /\ data[9] \in {43, 45}
    /\ data[10] \in 0..13
    /\ data[11] \in 0..59

\* C24: the decoding of an 11-byte DateTime payload fails unless every
\* field lies in its range, and a payload that is decoded gives the date
\* and time of its fields, not a normalised one.
C24_DateTimeValidation ==
    (val.type = TypeDateTime /\ Len(val.data) = 11) =>
       /\ val.res.err = NoError <=> FieldsInRange(val.data)
       /\ val.res.err = NoError =>
             val.res.val.fields = <<Uint16(val.data)>> \o SubSeq(val.data, 3, 7)
                                      \o <<val.data[8] * 100000000>>

\* a Range or a Resolution was encoded and the bytes decoded
SignedRoundTrip == val.type \in {TypeRange, TypeResolution}

\* C25: the decoding of the bytes that encode writes for a Range or a
\* Resolution of signed 32-bit numbers, negative ones included, returns a
\* value equal to the original; Range{-100, 200} is written as
\* ff ff ff 9c 00 00 00 c8.
C25_SignedRoundTrip ==
    SignedRoundTrip =>
       /\ val.res.err = NoError
       /\ ValueEqual(val.res.val, val.v)
       /\ val.v = Range(Limbs(-100), Limbs(200)) =>
             val.data = <<255, 255, 255, 156, 0, 0, 0, 200>>

\* the error value the byte source returns when it has no more bytes
SourceError == [err |-> EOF]

\* Decode has returned after the byte source returned its error
SourceFailed == Failed /\ ret.err = EOF

\* C26: when the byte source returns an error during Decode, Decode returns
\* that error value, not another error made of it.
C26_SourceErrorUnchanged ==
    SourceFailed => ret = SourceError

\* C27: what messageDecoder.read returns (the bytes, the error, the count
\* and the offset) depends on the bytes of the source only: from a source
\* that splits its bytes into reads of at least one byte it is the same as
\* from a source that delivers all that is asked for.
C27_ShortReads ==
    io.op = "read" => io.res = io.whole

\* four bytes were read in three calls of one, two and one byte
C27_Witness ==
    /\ io.op = "read"
    /\ io.cs = <<1, 2>>
    /\ io.n = 4
    /\ io.res.err = NoError
    /\ Len(io.res.data) = 4
    /\ io.res.md.cnt > 4

\* C28: the bytes a sink accepts during a write that succeeds, the sink
\* accepting at least one byte a call but maybe fewer than offered, are
\* the bytes written, and every call offers the bytes not yet accepted.
C28_ShortWrites ==
    io.op = "write" =>
       /\ io.res.err = NoError
       /\ io.res.out = io.data
       /\ \A j \in 1..Len(io.res.offers) :
             /\ io.res.offers[j] # <<>>
             /\ io.res.offers[j]
                   = SubSeq(io.data,
                            Len(io.data) - Len(io.res.offers[j]) + 1,
                            Len(io.data))
             /\ j > 1 => Len(io.res.offers[j]) < Len(io.res.offers[j - 1])

\* the bytes of the sample message were accepted in pieces of three bytes
\* and one byte
C28_Witness ==
    /\ io.op = "write"
    /\ io.cs = <<3, 1>>
    /\ io.data = SampleBytes
    /\ Len(io.res.offers) > 2
    /\ io.res.out = io.data

\* the payload of the value x: empty under a tag of the type Void
Payload(x) == IF Type(x.T) = TypeVoid THEN <<>> ELSE encode(x.V).val

\* the record of a value with the bytes p for payload: tag, name length,
\* name, value length, value
Record(t, name, p) ==
    <<t % 256>> \o PutU16(Len(name)) \o name \o PutU16(Len(p)) \o p

\* the record of the value x under the name `name`, that of a collection
\* followed by the records of its members and of its end
FrameValue(name, x) ==
    IF x.V.type = TypeCollection /\ Type(x.T) = TypeCollection
    THEN Record(x.T, name, <<>>) \o encodeCollection(x.T, x.V.attrs).out
    ELSE Record(x.T, name, Payload(x))

\* the records of the values j.. of an attribute: the first with the name,
\* the others with an empty name
RECURSIVE FrameValues(_, _, _)
FrameValues(name, values, j) ==
    IF j > Len(values) THEN <<>>
    ELSE FrameValue(IF j = 1 THEN name ELSE <<>>, values[j])
             \o FrameValues(name, values, j + 1)

\* the records of the attributes i.. of a group
RECURSIVE FrameAttrs(_, _)
FrameAttrs(attrs, i) ==
    IF i > Len(attrs) THEN <<>>
    ELSE FrameValues(attrs[i].Name, attrs[i].Values, 1) \o FrameAttrs(attrs, i + 1)

\* the groups k.. of a message: the tag of each and its attributes
RECURSIVE FrameGroups(_, _)
FrameGroups(gs, k) ==
    IF k > Len(gs) THEN <<>>
    ELSE <<gs[k].tag>> \o FrameAttrs(gs[k].attrs, 1) \o FrameGroups(gs, k + 1)

\* C29: an Encode that returns nil has written the version, the code and
\* the request id, then for each group its tag and the records of its
\* attributes, then the End-of-attributes byte; each value is a record of
\* tag, name length, name, value length and value, the first value of an
\* attribute with the name and the others with an empty name.
C29_FrameOrder ==
    (pc = "encoded" /\ encErr = NoError) =>
       out = HeaderBytes(msg) \o FrameGroups(attrGroups(msg), 1) \o <<TagEnd>>

\* the attributes of a group that encodeAttr writes without an error
Encodable(attrs) == SelectSeq(attrs, LAMBDA a : encodeGroupAttr(a).err = NoError)

\* the bytes encodeAttr writes for the attributes i.. of a group, one
\* attribute after the other
RECURSIVE WrittenAttrs(_, _)
WrittenAttrs(attrs, i) ==
    IF i > Len(attrs) THEN <<>>
    ELSE encodeGroupAttr(attrs[i]).out \o WrittenAttrs(attrs, i + 1)

\* the bytes of the groups k.. of a message: the tag of each and what
\* encodeAttr writes for its attributes
RECURSIVE WrittenGroups(_, _)
WrittenGroups(gs, k) ==
    IF k > Len(gs) THEN <<>>
    ELSE <<gs[k].tag>> \o WrittenAttrs(gs[k].attrs, 1) \o WrittenGroups(gs, k + 1)

\* the attributes the stream held under the group tag g, in the order of
\* their records, from the k-th group of the stream on
RECURSIVE WireAttrs(_, _)
WireAttrs(g, k) ==
    IF k > Len(wireGroups) THEN <<>>
    ELSE (IF wireGroups[k].tag = g THEN wireGroups[k].attrs ELSE <<>>)
             \o WireAttrs(g, k + 1)

\* the records of the values of the attributes, position by position
ValueFrames(attrs) ==
    [i \in 1..Len(attrs) |->
        [j \in 1..Len(attrs[i].Values) |->
            FrameValue(IF j = 1 THEN attrs[i].Name ELSE <<>>, attrs[i].Values[j])]]

\* Encode has written the attributes of every group one after the other in
\* the order of the message, and the values of an attribute in their order
EncoderKeepsOrder ==
    (pc = "encoded" /\ encErr = NoError) =>
       /\ out = HeaderBytes(msg) \o WrittenGroups(attrGroups(msg), 1) \o <<TagEnd>>
       /\ \A g \in GroupTagSet : \A i \in 1..Len(msg.groups[g].attrs) :
             LET a == msg.groups[g].attrs[i]
             IN encodeGroupAttr(a).err = NoError =>
                   encodeGroupAttr(a).out = FrameValues(a.Name, a.Values, 1)

\* Decode has stored the attributes of every group, and the values of
\* every attribute, in the order of their records in the stream
DecoderKeepsOrder ==
    Succeeded => \A g \in GroupTagSet : m.groups[g].attrs = WireAttrs(g, 1)

\* the message decoded from the bytes Encode wrote holds, in every group,
\* the attributes Encode could write, in their order, each with its values
\* in their order
RoundTripKeepsOrder ==
    (Succeeded /\ RoundTrip) =>
        \A g \in GroupTagSet :
            ValueFrames(m.groups[g].attrs) = ValueFrames(Encodable(msg.groups[g].attrs))

\* C30: within every group the encoder writes the attributes in insertion
\* order and within every attribute the values in insertion order, the
\* decoder stores attributes and values in the order of their records in
\* the stream, and decode(encode(m)) permutes neither the attributes of a
\* group nor the values of an attribute.
C30_OrderKept ==
    /\ EncoderKeepsOrder
    /\ DecoderKeepsOrder
    /\ RoundTripKeepsOrder

\* a message with a group of two attributes of different names, one of
\* them with two values of different tags, has been encoded and decoded
C30_Witness ==
    /\ Succeeded
    /\ RoundTrip
    /\ \E g \in GroupTagSet :
          /\ Len(m.groups[g].attrs) = 2
          /\ m.groups[g].attrs[1].Name # m.groups[g].attrs[2].Name
          /\ \E i \in 1..2 :
                /\ Len(m.groups[g].attrs[i].Values) = 2
                /\ m.groups[g].attrs[i].Values[1].T # m.groups[g].attrs[i].Values[2].T

\* the records of a collection after that of its begin: for each member a
\* nameless MemberAttrName record with the name for value and its values as
\* nameless records, a collection among them followed by its own records;
\* then a nameless EndCollection record with an empty value
RECURSIVE CollectionRecords(_)
RECURSIVE MemberRecords(_, _)
RECURSIVE ValueRecords(_, _)
ValueRecords(values, j) ==
    IF j > Len(values) THEN <<>>
    ELSE LET x == values[j]
         IN (IF Type(x.T) = TypeCollection
             THEN Record(x.T, <<>>, <<>>) \o CollectionRecords(x.V.attrs)
             ELSE Record(x.T, <<>>, Payload(x)))
            \o ValueRecords(values, j + 1)

MemberRecords(members, i) ==
    IF i > Len(members) THEN <<>>
    ELSE Record(TagMemberName, <<>>, members[i].Name)
            \o ValueRecords(members[i].Values, 1)
            \o MemberRecords(members, i + 1)

CollectionRecords(members) ==
    MemberRecords(members, 1) \o Record(TagEndCollection, <<>>, <<>>)

\* the records of bytes from the offset `at` on open and close collections
\* in balance: no EndCollection without a BeginCollection open, and none
\* left open at the end
RECURSIVE Balanced(_, _, _)
Balanced(bytes, at, depth) ==
    IF at >= Len(bytes) THEN depth = 0
    ELSE LET t == bytes[at + 1]
             nl == PrefixAt(bytes, at + 1)
             vl == PrefixAt(bytes, at + 3 + nl)
             d == CASE t = TagBeginCollection -> depth + 1
                    [] t = TagEndCollection -> depth - 1
                    [] OTHER -> depth
         IN /\ nl >= 0
            /\ vl >= 0
            /\ d >= 0
            /\ (d = 0 => at + 5 + nl + vl = Len(bytes))
            /\ Balanced(bytes, at + 5 + nl + vl, d)

\* C31: an attribute whose value is a Collection, when it encodes without
\* error, is written as the BeginCollection record with an empty value,
\* then for each member in order a nameless MemberAttrName record whose
\* value is the member's name and the member's values as nameless records
\* with their own tags (the same way for a nested collection), then a
\* nameless EndCollection record with an empty value; the BeginCollection
\* and EndCollection records are balanced at every depth.
C31_CollectionLayout ==
    (coll.done /\ coll.err = NoError) =>
        /\ coll.out = Record(TagBeginCollection, NameC, <<>>)
                          \o CollectionRecords(coll.attrs)
        /\ Balanced(coll.out, 0, 0)

\* a collection of two members, the first with a nested collection for
\* value that itself has a member of two values, has been encoded
C31_Witness ==
    /\ coll.done
    /\ coll.err = NoError
    /\ Len(coll.attrs) = 2
    /\ coll.attrs[1].Values[1].V.type = TypeCollection
    /\ Len(coll.attrs[1].Values[1].V.attrs) >= 1
    /\ Len(coll.attrs[1].Values[1].V.attrs[1].Values) = 2

\* the levels below the innermost collection are as they were before the
\* latest iteration
OuterKept ==
    \A k \in 1..(Len(before.stack) - 1) : stack[k] = before.stack[k]

\* the innermost collection before the latest iteration, and its last member
InnerBefore == before.stack[Len(before.stack)]
LastMemberBefore == InnerBefore[Len(InnerBefore)]

\* the latest iteration was one of decodeCollection and did not fail
CollStepDone == CollStep /\ pc \in {"coll", "top"}

\* C32: in a collection a MemberAttrName starts a new member, named by the
\* value of the record and without values; every other value record is
\* appended to the values of the member started last, under its own tag and
\* after the values the member has; a BeginCollection opens a collection of
\* its own, which its EndCollection closes and appends as one Collection
\* value to the member current when it was opened; an EndCollection closes
\* the innermost open collection only.
C32_CollectionMembers ==
    CollStepDone =>
       LET d == Len(before.stack)
       IN CASE tag = TagMemberName ->
                 /\ Len(stack) = d
                 /\ OuterKept
                 /\ stack[d] = Append(InnerBefore,
                        [Name |-> SubSeq(in, ValuePos + 1, ValuePos + ValueLen),
                         Values |-> <<>>])
            [] tag = TagBeginCollection ->
                 stack = Append(before.stack, <<>>)
            [] tag = TagEndCollection /\ d > 1 ->
                 LET outer == before.stack[d - 1]
                 IN /\ Len(stack) = d - 1
                    /\ \A k \in 1..(d - 2) : stack[k] = before.stack[k]
                    /\ Len(stack[d - 1]) = Len(outer)
                    /\ \A i \in 1..(Len(outer) - 1) : stack[d - 1][i] = outer[i]
                    /\ stack[d - 1][Len(outer)] =
                          [Name |-> outer[Len(outer)].Name,
                           Values |-> Append(outer[Len(outer)].Values,
                                             [T |-> TagBeginCollection,
                                              V |-> Collection(InnerBefore)])]
            [] tag = TagEndCollection /\ d = 1 ->
                 /\ stack = <<>>
                 /\ pc = "top"
                 /\ attr.Values[1].V = Collection(InnerBefore)
            [] OTHER ->
                 /\ Len(stack) = d
                 /\ OuterKept
                 /\ Len(stack[d]) = Len(InnerBefore)
                 /\ \A i \in 1..(Len(InnerBefore) - 1) : stack[d][i] = InnerBefore[i]
                 /\ LET now == stack[d][Len(InnerBefore)]
                    IN /\ now.Name = LastMemberBefore.Name
                       /\ Len(now.Values) = Len(LastMemberBefore.Values) + 1
                       /\ SubSeq(now.Values, 1, Len(LastMemberBefore.Values))
                             = LastMemberBefore.Values
                       /\ tag # TagExtension => now.Values[Len(now.Values)].T = tag

\* an EndCollection has closed a collection nested in another, whose member
\* now holds it as a value
C32_Witness ==
    /\ CollStepDone
    /\ tag = TagEndCollection
    /\ Len(before.stack) = 2
    /\ InnerBefore # <<>>
    /\ LastMemberValue.V = Collection(InnerBefore)

\* every value of attrs, and of the collections among them at any depth,
\* has the type of the tag it is stored under
RECURSIVE Typed(_)
Typed(attrs) ==
    \A i \in 1..Len(attrs) : \A j \in 1..Len(attrs[i].Values) :
       LET x == attrs[i].Values[j]
       IN /\ x.V.type = Type(x.T)
          /\ x.V.type = TypeCollection => Typed(x.V.attrs)

\* C33: in a message a successful Decode returned, every value, at the top
\* level and in collections at any depth, has the type of its tag: a
\* Collection under BeginCollection, Void under an out-of-band tag, also
\* when the tag came in the extension envelope.
C33_TagTypeInvariant ==
    Succeeded => \A g \in GroupTagSet : Typed(m.groups[g].attrs)

\* Decode has returned nil, and the message may have been encoded again
Decoded == pc \in {"done", "reencoded"} /\ ret.err = NoError

\* the tags of the groups of the stream that hold no attribute
EmptyGroupTags ==
    { wireGroups[k].tag : k \in { i \in 1..Len(wireGroups) : wireGroups[i].attrs = <<>> } }

\* the stream was a header, one group tag and the End-of-attributes tag
OneEmptyGroup ==
    /\ Len(wireGroups) = 1
    /\ Len(in) = 10
    /\ in[10] = TagEnd

\* C34: a group delimiter followed by no attribute still gives a group in
\* the decoded message, and Encode of that message writes the tag of the
\* group again: the stream header, group tag, 0x03 is written back byte for
\* byte.
C34_EmptyGroups ==
    /\ Decoded => \A t \in EmptyGroupTags : ~m.groups[t].nil
    /\ (pc = "reencoded" /\ feeding /\ OneEmptyGroup) => out = in

\* C35: Decode never aborts: on every input it returns, with a message or
\* with an error; no record, one in the extension envelope with a delimiter
\* or a collection tag for 32-bit tag included, makes the decoder panic.
C35_NoPanic == pc # "panic"

\* the messageDecoder at the start of the latest iteration
StepStart == [cnt |-> before.cnt, off |-> before.cnt]

\* the latest iteration read a tag, and the record after it if the tag has
\* one, and Decode went on or returned nil
StepDone ==
    /\ TopStep \/ CollStep
    /\ pc \in {"top", "coll"} \/ Succeeded

\* the same iteration on the first k bytes of the source ends with an
\* error: of the read of the tag, or of the read of the record
CutFails(k) ==
    LET p == SubSeq(in, 1, k)
        t == decodeTag(p, StepStart)
    IN \/ t.err # NoError
       \/ decodeAttribute(p, t.md, t.val, bits).err \notin {NoError, Panic}

\* C36: Decode returns nil only after it has read the End-of-attributes tag
\* at the top level, the last byte it consumed; and every iteration that
\* went well on the bytes it consumed ends with an error on each proper
\* prefix of them, as does the header: so Decode of a proper prefix of the
\* bytes of a successful Decode fails.
C36_TruncationDetected ==
    /\ Succeeded =>
          /\ TopStep
          /\ tag = TagEnd
          /\ tagPos = md.cnt - 1
          /\ \A k \in 0..7 :
                decodeHeader(SubSeq(in, 1, k), ZeroMessage, [cnt |-> 0, off |-> 0]).err
                    # NoError
    /\ StepDone => \A k \in before.cnt..(md.cnt - 1) : CutFails(k)

\* Decode has returned nil on a stream with an attribute whose value is a
\* collection
C36_Witness ==
    /\ Succeeded
    /\ feeding
    /\ \E g \in GroupTagSet :
          /\ m.groups[g].attrs # <<>>
          /\ m.groups[g].attrs[1].Values[1].V.type = TypeCollection

\* C37: a Decode that returns nil has taken from the source the bytes up to
\* and including the End-of-attributes tag read at the top level and not
\* one more: what follows the message in the stream is left to the caller.
C37_NoOverRead ==
    Succeeded =>
        /\ in[tagPos + 1] = TagEnd
        /\ md.cnt = tagPos + 1
        /\ md.cnt <= Len(in)

\* Decode has returned nil on a stream that holds document data after the
\* End-of-attributes tag
C37_Witness ==
    /\ Succeeded
    /\ Len(in) = md.cnt + 4
    /\ SubSeq(in, md.cnt + 1, Len(in)) = <<37, 80, 68, 70>>

\* the header of the stream, as far as the stream has it
WireHeader ==
    [Version |-> Uint16(SubSeq(in, 1, 2)),
     Code |-> Uint16(SubSeq(in, 3, 4)),
     RequestID |-> Uint32(SubSeq(in, 5, 8))]

\* C38: Decode starts from a clean Message: after a Decode that returned nil
\* the header of the Message is that of the stream and its groups hold the
\* attributes of the stream and nothing else, whatever the Message held
\* before; a second Decode into the same Message leaves only what the
\* second stream held.
C38_CleanMessage ==
    Succeeded =>
        /\ m.Version = WireHeader.Version
        /\ m.Code = WireHeader.Code
        /\ m.RequestID = WireHeader.RequestID
        /\ \A g \in GroupTagSet :
              /\ m.groups[g].attrs = WireAttrs(g, 1)
              /\ m.groups[g].nil <=> WireAttrs(g, 1) = <<>>

\* a Decode into a Message that held a Job group has returned nil on a
\* stream with an Operation group and no Job group: the Job group is gone
C38_Witness ==
    /\ Succeeded
    /\ UsedMessage.groups[TagJobGroup].attrs # <<>>
    /\ WireAttrs(TagOperationGroup, 1) # <<>>
    /\ WireAttrs(TagJobGroup, 1) = <<>>
    /\ m.groups[TagJobGroup].nil
    /\ m.RequestID # UsedMessage.RequestID

\* the Groups values a third argument is taken from: the sequences of up
\* to MaxGroups groups of the pool
ThirdGroups == UNION { [1..k -> GroupPool] : k \in 0..MaxGroups }

\* the memory after groups1.Similar(groups2), the two values in the arrays
\* 1 and 2; after groups1.Similar(groups1), the value in the array 1
AfterSimilar ==
    SimilarOn(<<cmp.groups1, cmp.groups2>>,
              Slice(1, Len(cmp.groups1)), Slice(2, Len(cmp.groups2))).heap
AfterSelfSimilar ==
    SimilarOn(<<cmp.groups1>>,
              Slice(1, Len(cmp.groups1)), Slice(1, Len(cmp.groups1))).heap

\* C39: Groups.Similar is an equivalence: every Groups value is similar to
\* itself, Similar gives the same answer with the arguments exchanged, and
\* it is transitive; and a call leaves the arrays of both arguments as they
\* were, also when both arguments are one slice: the sort is done on
\* copies.
C39_SimilarEquivalence ==
    /\ GroupsSimilar(cmp.groups1, cmp.groups1)
    /\ GroupsSimilar(cmp.groups1, cmp.groups2) = GroupsSimilar(cmp.groups2, cmp.groups1)
    /\ GroupsSimilar(cmp.groups1, cmp.groups2) =>
          \A g3 \in ThirdGroups :
              GroupsSimilar(cmp.groups2, g3) => GroupsSimilar(cmp.groups1, g3)
    /\ AfterSimilar[1] = cmp.groups1
    /\ AfterSimilar[2] = cmp.groups2
    /\ AfterSelfSimilar[1] = cmp.groups1

\* two different Groups values are similar, a third different from both is
\* similar to the second, and the first is not in the order of its tags
C39_Witness ==
    /\ cmp.groups1 # cmp.groups2
    /\ GroupsSimilar(cmp.groups1, cmp.groups2)
    /\ SliceStable(cmp.groups1) # cmp.groups1
    /\ \E g3 \in ThirdGroups :
          /\ g3 # cmp.groups1
          /\ g3 # cmp.groups2
          /\ GroupsSimilar(cmp.groups2, g3)

\* a Decode is under way; a read or a write is under way
Decoding == pc \in {"top", "coll"}
Transferring == io.op \in {"reading", "writing"}

====
